---- MODULE Spec2Model ----
(***************************************************************************)
(* Connection lifecycle and health monitoring of the chat-bridge adapters: *)
(* ZaloAdapter (cookie-session style, guarded by a process-wide singleton  *)
(* slot) and TelegramAdapter (polling-bot style, on BaseAdapter).          *)
(*                                                                         *)
(* One step of the model is one run-to-completion segment of the Node.js   *)
(* event loop: the code between two real suspension points (the login      *)
(* handshake, the 30 s reconnection backoff, a transport call).  An await  *)
(* of a function that never suspends (forceShutdown) resumes in the same   *)
(* macrotask and is part of the same step.                                 *)
(*                                                                         *)
(* The two adapter classes share no state.  A behaviour follows one of     *)
(* them (variable variant), so the state space is the sum of the two.      *)
(***************************************************************************)
EXTENDS Integers, FiniteSets, Sequences, TLC

VARIABLES
    variant,         \* which adapter class the behaviour exercises
    now,             \* Date.now()
    globalInstance,  \* ZaloAdapter.globalInstance (0 is null)
    z,               \* the fields of every ZaloAdapter instance
    cpc,             \* position of every ZaloAdapter.create() call
    cold,            \* create(): the registered instance the call found and replaced
    cret,            \* create(): the value the call returned (0 is null)
    zConn,           \* connect() calls on an instance suspended in the login handshake
    zBackoff,        \* attemptReconnection() calls suspended in the 30 s backoff
    zLogin,          \* attemptReconnection() calls suspended in the login handshake
    outCalls,        \* outbound transport send calls made
    refused,         \* sendMessage() calls that raised the not-connected error
    tg,              \* the fields of the TelegramAdapter
    tPend,           \* TelegramAdapter calls suspended at each await
    hs,              \* health tracker under test: the health record
    hsPrev,          \* health tracker under test: the record before the last update
    hsCall,          \* health tracker under test: the last update's arguments
    inb,             \* inbound path of an adapter: callback, handle, the last payload handled
    orch,            \* the orchestrator: adapter map, running flag, the last reply
    nm,              \* normalization under test: a raw payload and its canonical message
    ord              \* inbound messages in flight: deliveries, callback calls, replies

vars == <<variant, now, globalInstance, z, cpc, cold, cret, zConn, zBackoff,
          zLogin, outCalls, refused, tg, tPend, hs, hsPrev, hsCall, inb, orch, nm, ord>>

zaloVars == <<globalInstance, z, cpc, cold, cret, zConn, zBackoff, zLogin>>
tgVars == <<tg, tPend>>
sendVars == <<outCalls, refused>>
trackerVars == <<hs, hsPrev, hsCall>>
ioVars == <<inb, orch, nm, ord>>

----------------------------------------------------------------------------
(* Bounds of the model *)

MaxCreate == 2      \* ZaloAdapter.create() calls (each builds at most one instance)
MaxPending == 2     \* calls of one adapter suspended at the same time
MaxAttempts == 1    \* cap of reconnectAttempts
MaxFailures == 7    \* cap of consecutiveFailures
MaxOut == 1         \* sendMessage() calls counted, of either result
MaxNow == 2         \* clock readings of the health tracker under test

(* Program constants *)

MAX_CONSECUTIVE_FAILURES == 5

Null == 0
Calls == 1 .. MaxCreate
Inst == 1 .. MaxCreate      \* the instance built by call c is instance c
NoError == "undefined"
ErrMsgs == {"e1"}           \* error messages of the lifecycle

----------------------------------------------------------------------------
(* Connection Health Tracker *)

\* ZaloAdapter's own record (no reconnectAttempts)
ZaloHealthInit ==
    [isConnected |-> FALSE, lastHealthCheck |-> 0, consecutiveFailures |-> 0,
     lastError |-> NoError]

\* ZaloAdapter.isHealthy()
ZaloIsHealthy(h) ==
    h.isConnected /\ h.consecutiveFailures < MAX_CONSECUTIVE_FAILURES

\* BaseAdapter's record
BaseHealthInit ==
    [isConnected |-> FALSE, lastHealthCheck |-> 0, consecutiveFailures |-> 0,
     lastError |-> NoError, reconnectAttempts |-> 0]

\* a faulty isHealthy(): the threshold itself still counts as healthy
IsHealthyOffByOne(h) ==
    h.isConnected /\ h.consecutiveFailures <= MAX_CONSECUTIVE_FAILURES

\* BaseAdapter.isHealthy()
IsHealthy(h) ==
    h.isConnected /\ h.consecutiveFailures < MAX_CONSECUTIVE_FAILURES

\* JavaScript truthiness of an optional string: `if (error)`
Truthy(e) == e \notin {NoError, ""}

\* a faulty updateHealthStatus(): a success does not reset the failure count
UpdateHealthStatusNoReset(h, success, error, t) ==
    IF success
    THEN [h EXCEPT !.lastHealthCheck = t, !.isConnected = TRUE, !.lastError = NoError]
    ELSE [h EXCEPT !.lastHealthCheck = t, !.isConnected = FALSE,
                   !.consecutiveFailures = @ + 1,
                   !.lastError = IF Truthy(error) THEN error ELSE @]

\* BaseAdapter.updateHealthStatus(success, error?)
UpdateHealthStatus(h, success, error, t) ==
    IF success
    THEN [h EXCEPT !.lastHealthCheck = t, !.isConnected = TRUE,
                   !.consecutiveFailures = 0, !.lastError = NoError]
    ELSE [h EXCEPT !.lastHealthCheck = t, !.isConnected = FALSE,
                   !.consecutiveFailures = @ + 1,
                   !.lastError = IF Truthy(error) THEN error ELSE @]

\* an updateHealthStatus() whose success leaves the failure count as it was
ZaloUpdateHealthStatusKeepsCount(h, success, t) ==
    IF success
    THEN [h EXCEPT !.lastHealthCheck = t, !.isConnected = TRUE, !.lastError = NoError]
    ELSE [h EXCEPT !.lastHealthCheck = t, !.isConnected = FALSE,
                   !.consecutiveFailures = @ + 1]

\* ZaloAdapter.updateHealthStatus(success)
ZaloUpdateHealthStatus(h, success, t) ==
    IF success
    THEN [h EXCEPT !.lastHealthCheck = t, !.isConnected = TRUE,
                   !.consecutiveFailures = 0, !.lastError = NoError]
    ELSE [h EXCEPT !.lastHealthCheck = t, !.isConnected = FALSE,
                   !.consecutiveFailures = @ + 1]

----------------------------------------------------------------------------
(* The health tracker under test *)

\* the last call on the tracker under test: the operation ("update", "isHealthy"),
\* an update's arguments and the clock reading it stamped, isHealthy()'s result
NoCall ==
    [op |-> "none", success |-> FALSE, error |-> NoError, t |-> 0, healthy |-> FALSE]

\* the error arguments of the tracker under test: absent, empty, two messages
TrackerErrors == {NoError, "", "e1", "e2"}

ZaloHealthRecords ==
    [isConnected : BOOLEAN, lastHealthCheck : 0 .. MaxNow,
     consecutiveFailures : 0 .. MaxFailures, lastError : {NoError, "e1"}]

BaseHealthRecords ==
    [isConnected : BOOLEAN, lastHealthCheck : 0 .. MaxNow,
     consecutiveFailures : 0 .. MaxFailures, lastError : {NoError, "e1"},
     reconnectAttempts : 0 .. MaxAttempts]

----------------------------------------------------------------------------
(* ZaloAdapter instances *)

\* The fields of an instance; fsReturned records that forceShutdown() has returned,
\* rearmed that the last startHealthMonitoring() found a timer armed.
\* api: "null", or the logged-in handle with its listener:
\* "nolistener" (handle without a listener), "started", "stopped"
ApiStates == {"null", "nolistener", "started", "stopped"}

NoInstance ==
    [shutdown |-> FALSE, zalo |-> FALSE, api |-> "null", isConnected |-> FALSE,
     timer |-> FALSE, live |-> 0, rearmed |-> FALSE, health |-> ZaloHealthInit,
     fsReturned |-> FALSE]

\* the interval timers of an adapter that were set and not cleared (`live`),
\* next to the field that holds the last one set (`timer`: armed or null).
\* A startHealthMonitoring() that sets a new interval without clearing the one
\* in the field:
LiveAfterStartNoClear(r) == r.live + 1

\* startHealthMonitoring(): clearInterval() of the timer in the field, if any,
\* then setInterval()
LiveAfterStart(r) == IF r.timer THEN r.live ELSE r.live + 1

\* stopHealthMonitoring() and the shutdown paths: clearInterval() of the timer
\* in the field, if any
LiveAfterStop(r) == IF r.timer THEN r.live - 1 ELSE r.live

\* new ZaloAdapter(config) with a valid config
ZaloNew ==
    [NoInstance EXCEPT !.zalo = TRUE]

HasListener(r) == r.api \in {"started", "stopped"}

\* the outcomes of `await this.zalo.login(...)` followed by setupMessageHandlers()
LoginOutcomes == {"ok", "reject", "nolistener", "startfails"}

\* a connectToZalo() that does not register the handlers on the new handle
ConnectToZaloNoHandlers(r, outcome) ==
    CASE outcome = "ok" -> [r EXCEPT !.api = "nolistener", !.isConnected = TRUE]
      [] outcome = "nolistener" -> [r EXCEPT !.api = "nolistener"]
      [] outcome = "startfails" -> [r EXCEPT !.api = "stopped"]
      [] OTHER -> r

\* connectToZalo() from the point where login() settles: the new fields
ConnectToZaloResume(r, outcome) ==
    CASE outcome = "ok" -> [r EXCEPT !.api = "started", !.isConnected = TRUE]
      [] outcome = "nolistener" -> [r EXCEPT !.api = "nolistener"]
      [] outcome = "startfails" -> [r EXCEPT !.api = "stopped"]
      [] OTHER -> r

ConnectToZaloThrows(outcome) == outcome # "ok"

\* initialize() from the point where connectToZalo() settles
InitializeResume(r, outcome, msg, t) ==
    LET c == ConnectToZaloResume(r, outcome) IN
    IF ConnectToZaloThrows(outcome)
    THEN [c EXCEPT !.health.isConnected = FALSE, !.health.lastError = msg]
    ELSE [c EXCEPT !.timer = TRUE,
                   !.live = LiveAfterStart(c),
                   !.rearmed = c.timer,
                   !.health.isConnected = TRUE,
                   !.health.lastHealthCheck = t,
                   !.health.consecutiveFailures = 0]

\* forceShutdown(): the instance's fields
ZaloForceShutdownFields(r) ==
    [r EXCEPT !.shutdown = TRUE, !.timer = FALSE, !.live = LiveAfterStop(r),
              !.rearmed = FALSE, !.api = "null", !.zalo = FALSE,
              !.isConnected = FALSE, !.health.isConnected = FALSE,
              !.fsReturned = TRUE]

\* a disconnect() that releases the handle and leaves isConnected as it is
ZaloDisconnectKeepsConnected(r) ==
    IF r.shutdown
    THEN r
    ELSE [r EXCEPT !.shutdown = TRUE, !.timer = FALSE, !.live = LiveAfterStop(r),
                   !.rearmed = FALSE, !.api = "null",
                   !.zalo = FALSE, !.health.isConnected = FALSE]

\* disconnect(): the instance's fields
ZaloDisconnectFields(r) ==
    IF r.shutdown
    THEN r
    ELSE [r EXCEPT !.shutdown = TRUE, !.timer = FALSE, !.live = LiveAfterStop(r),
                   !.rearmed = FALSE, !.api = "null",
                   !.zalo = FALSE, !.isConnected = FALSE,
                   !.health.isConnected = FALSE]

\* a shutdown that leaves the registry slot as it is
SlotKept(g, i) == g

\* the registry slot after instance i ran forceShutdown() or an effective disconnect()
SlotAfterShutdown(g, i) == IF g = i THEN Null ELSE g

\* sendMessage(): what the call does in the instance's state
ZaloSendOutcome(r) ==
    IF r.api = "null" \/ ~r.isConnected THEN "NotConnected" ELSE "dispatch"

\* the caller of create() holds the instance
Returned(i) == cpc[i] = "done" /\ cret[i] = i

----------------------------------------------------------------------------
(* ZaloAdapter.create() *)

\* a faulty reuse test: the health test is inverted
CreateReusesUnhealthy(g) ==
    g # Null /\ ~z[g].shutdown /\ ~ZaloIsHealthy(z[g].health)

\* create() returns the registered instance g: it is there, not shut down, healthy
CreateReuses(g) ==
    g # Null /\ ~z[g].shutdown /\ ZaloIsHealthy(z[g].health)

\* a faulty replacement: the registered instance is dropped without forceShutdown()
CreateReplacesNoShutdown(g) == z

\* create() found g unhealthy or shut down: the instances after its forceShutdown()
CreateReplaces(g) ==
    IF g # Null THEN [z EXCEPT ![g] = ZaloForceShutdownFields(z[g])] ELSE z

\* a faulty failure path: the half-initialized instance is left as it is
CreateDiscardsNoShutdown(c, r) ==
    [z EXCEPT ![c] = r]

\* create() after initialize() failed on its instance c: the instances after
\* `await instance.forceShutdown()`
CreateDiscards(c, r) ==
    [z EXCEPT ![c] = ZaloForceShutdownFields(r)]

\* create() up to its first suspension: reuse, or replace and begin the handshake
ZaloCreateEnter(c, cfgOk) ==
    /\ variant = "zalo"
    /\ cpc[c] = "idle"
    /\ \A d \in Calls : d < c => cpc[d] # "idle"
    /\ LET g == globalInstance IN
       IF CreateReuses(g)
       THEN /\ cpc' = [cpc EXCEPT ![c] = "done"]
            /\ cret' = [cret EXCEPT ![c] = g]
            /\ UNCHANGED <<globalInstance, z, cold>>
       ELSE LET z1 == CreateReplaces(g)
            IN /\ globalInstance' = Null
               /\ cold' = [cold EXCEPT ![c] = g]
               /\ IF cfgOk
                  THEN /\ z' = [z1 EXCEPT ![c] = ZaloNew]
                       /\ cpc' = [cpc EXCEPT ![c] = "login"]
                       /\ cret' = cret
                  ELSE /\ z' = z1
                       /\ cpc' = [cpc EXCEPT ![c] = "done"]
                       /\ cret' = [cret EXCEPT ![c] = Null]
    /\ UNCHANGED <<variant, now, zConn, zBackoff, zLogin, sendVars, tgVars, trackerVars, ioVars>>

\* create() from the point where the handshake of its new instance settles
ZaloCreateResume(c, outcome, msg) ==
    /\ variant = "zalo"
    /\ cpc[c] = "login"
    /\ LET r == InitializeResume(z[c], outcome, msg, now) IN
       IF ~ConnectToZaloThrows(outcome)
       THEN /\ z' = [z EXCEPT ![c] = r]
            /\ globalInstance' = c
            /\ cret' = [cret EXCEPT ![c] = c]
       ELSE /\ z' = CreateDiscards(c, r)
            /\ globalInstance' = SlotAfterShutdown(globalInstance, c)
            /\ cret' = [cret EXCEPT ![c] = Null]
    /\ cpc' = [cpc EXCEPT ![c] = "done"]
    /\ UNCHANGED <<variant, now, cold, zConn, zBackoff, zLogin, sendVars, tgVars,
                   trackerVars, ioVars>>

----------------------------------------------------------------------------
(* ZaloAdapter: public operations on an instance a caller holds *)

\* the calls on instance i that are suspended
ZaloPending(i) == zConn[i] + zBackoff[i] + zLogin[i]

\* connect(): what the call does in the instance's state
ZaloConnectOutcome(r) == IF r.shutdown THEN "throws" ELSE "initialize"

\* connect() up to the login handshake
ZaloConnect(i) ==
    /\ variant = "zalo"
    /\ Returned(i)
    /\ IF ZaloConnectOutcome(z[i]) = "throws"
       THEN UNCHANGED zConn
       ELSE /\ ZaloPending(i) < MaxPending
            /\ zConn' = [zConn EXCEPT ![i] = @ + 1]
    /\ UNCHANGED <<variant, now, globalInstance, z, cpc, cold, cret, zBackoff,
                   zLogin, sendVars, tgVars, trackerVars, ioVars>>

\* connect() from the point where the handshake settles
ZaloConnectResume(i, outcome, msg) ==
    /\ variant = "zalo"
    /\ zConn[i] > 0
    /\ zConn' = [zConn EXCEPT ![i] = @ - 1]
    /\ z' = [z EXCEPT ![i] = InitializeResume(z[i], outcome, msg, now)]
    /\ UNCHANGED <<variant, now, globalInstance, cpc, cold, cret, zBackoff,
                   zLogin, sendVars, tgVars, trackerVars, ioVars>>

\* forceShutdown()
ZaloForceShutdown(i) ==
    /\ variant = "zalo"
    /\ Returned(i)
    /\ z' = [z EXCEPT ![i] = ZaloForceShutdownFields(z[i])]
    /\ globalInstance' = SlotAfterShutdown(globalInstance, i)
    /\ UNCHANGED <<variant, now, cpc, cold, cret, zConn, zBackoff, zLogin, sendVars,
                   tgVars, trackerVars, ioVars>>

\* disconnect()
ZaloDisconnect(i) ==
    /\ variant = "zalo"
    /\ Returned(i)
    /\ z' = [z EXCEPT ![i] = ZaloDisconnectFields(z[i])]
    /\ globalInstance' = IF z[i].shutdown THEN globalInstance
                         ELSE SlotAfterShutdown(globalInstance, i)
    /\ UNCHANGED <<variant, now, cpc, cold, cret, zConn, zBackoff, zLogin, sendVars,
                   tgVars, trackerVars, ioVars>>

\* sendMessage(): the not-connected guard, then the transport call
ZaloSendMessage(i) ==
    /\ variant = "zalo"
    /\ Returned(i)
    /\ IF ZaloSendOutcome(z[i]) = "NotConnected"
       THEN /\ outCalls + refused < MaxOut
            /\ refused' = refused + 1
            /\ outCalls' = outCalls
       ELSE /\ outCalls + refused < MaxOut
            /\ outCalls' = outCalls + 1
            /\ refused' = refused
    /\ UNCHANGED <<variant, now, globalInstance, z, cpc, cold, cret, zConn,
                   zBackoff, zLogin, tgVars, trackerVars, ioVars>>

----------------------------------------------------------------------------
(* ZaloAdapter: health-check timer, reconnection, listener events *)

\* performHealthCheck(): the health record after the check, "skip" when it returns early
ZaloCheck(r, t) ==
    IF r.api = "null" \/ r.shutdown THEN r.health
    ELSE ZaloUpdateHealthStatus(r.health, HasListener(r), t)

\* a performHealthCheck() that starts attemptReconnection() on every failure
ZaloCheckReconnectsAlways(r, t) ==
    /\ ~(r.api = "null" \/ r.shutdown)
    /\ ~HasListener(r)

\* a performHealthCheck() that starts attemptReconnection() at the fifth failure
\* and never again
ZaloCheckReconnectsAtFiveOnly(r, t) ==
    /\ ~(r.api = "null" \/ r.shutdown)
    /\ ~HasListener(r)
    /\ ZaloCheck(r, t).consecutiveFailures = MAX_CONSECUTIVE_FAILURES

\* a performHealthCheck() that starts attemptReconnection() one failure early
ZaloCheckReconnectsAtFour(r, t) ==
    /\ ~(r.api = "null" \/ r.shutdown)
    /\ ~HasListener(r)
    /\ ZaloCheck(r, t).consecutiveFailures >= MAX_CONSECUTIVE_FAILURES - 1

\* performHealthCheck() starts attemptReconnection()
ZaloCheckReconnects(r, t) ==
    /\ ~(r.api = "null" \/ r.shutdown)
    /\ ~HasListener(r)
    /\ ZaloCheck(r, t).consecutiveFailures >= MAX_CONSECUTIVE_FAILURES

\* one firing of the health-check interval, up to the 30 s backoff
ZaloTick(i) ==
    /\ variant = "zalo"
    /\ z[i].timer
    /\ ZaloCheck(z[i], now).consecutiveFailures <= MaxFailures
    /\ z' = [z EXCEPT ![i].health = ZaloCheck(z[i], now)]
    /\ IF ZaloCheckReconnects(z[i], now)
       THEN /\ ZaloPending(i) < MaxPending
            /\ zBackoff' = [zBackoff EXCEPT ![i] = @ + 1]
       ELSE UNCHANGED zBackoff
    /\ UNCHANGED <<variant, now, globalInstance, cpc, cold, cret, zConn, zLogin,
                   sendVars, tgVars, trackerVars, ioVars>>

\* attemptReconnection() after the backoff: stop the listener, begin the handshake
ZaloBackoffDone(i, stopThrows) ==
    /\ variant = "zalo"
    /\ zBackoff[i] > 0
    /\ zBackoff' = [zBackoff EXCEPT ![i] = @ - 1]
    /\ LET r == z[i]
           r1 == IF HasListener(r) /\ ~stopThrows
                 THEN [r EXCEPT !.api = "stopped"] ELSE r
       IN IF r.zalo
          THEN /\ zLogin' = [zLogin EXCEPT ![i] = @ + 1]
               /\ z' = [z EXCEPT ![i] = r1]
          ELSE \* this.zalo is null: login() raises, the catch records a failure
               /\ r.health.consecutiveFailures < MaxFailures
               /\ zLogin' = zLogin
               /\ z' = [z EXCEPT ![i] =
                          [r1 EXCEPT !.health =
                              ZaloUpdateHealthStatus(r1.health, FALSE, now)]]
    /\ UNCHANGED <<variant, now, globalInstance, cpc, cold, cret, zConn, sendVars,
                   tgVars, trackerVars, ioVars>>

\* attemptReconnection() from the point where the handshake settles
ZaloReconnectResume(i, outcome) ==
    /\ variant = "zalo"
    /\ zLogin[i] > 0
    /\ ConnectToZaloThrows(outcome) => z[i].health.consecutiveFailures < MaxFailures
    /\ zLogin' = [zLogin EXCEPT ![i] = @ - 1]
    /\ LET r1 == ConnectToZaloResume(z[i], outcome) IN
       z' = [z EXCEPT ![i] =
               [r1 EXCEPT !.health =
                   ZaloUpdateHealthStatus(r1.health, ~ConnectToZaloThrows(outcome), now)]]
    /\ UNCHANGED <<variant, now, globalInstance, cpc, cold, cret, zConn, zBackoff,
                   sendVars, tgVars, trackerVars, ioVars>>

\* the errors the listener of a handle emits: a dropped socket and a refused
\* session
ListenerErrors == {"socket hang up", "401 Unauthorized"}

\* the listener's 'error' event: handleConnectionError(error)
ZaloListenerError(i, msg) ==
    /\ variant = "zalo"
    /\ z[i].api = "started"
    /\ z[i].health.consecutiveFailures < MaxFailures
    /\ z' = [z EXCEPT ![i].health =
               ZaloUpdateHealthStatus([z[i].health EXCEPT !.lastError = msg], FALSE, now)]
    /\ UNCHANGED <<variant, now, globalInstance, cpc, cold, cret, zConn, zBackoff,
                   zLogin, sendVars, tgVars, trackerVars, ioVars>>

\* the transport drops the handle's listener (what performHealthCheck() probes for)
ZaloListenerLost(i) ==
    /\ variant = "zalo"
    /\ HasListener(z[i])
    /\ z' = [z EXCEPT ![i].api = "nolistener"]
    /\ UNCHANGED <<variant, now, globalInstance, cpc, cold, cret, zConn, zBackoff,
                   zLogin, sendVars, tgVars, trackerVars, ioVars>>

----------------------------------------------------------------------------
(* TelegramAdapter *)

\* the adapter's configuration: polling mode, webhook mode (with polling off or
\* left at its default), and a configuration without a token
TgConfigs ==
    { [token |-> TRUE, polling |-> TRUE, webhook |-> "off"],
      [token |-> TRUE, polling |-> FALSE, webhook |-> "url"],
      [token |-> TRUE, polling |-> TRUE, webhook |-> "url"],
      [token |-> FALSE, polling |-> TRUE, webhook |-> "off"] }

\* bot: "null", or the TelegramBot handle: "polling" (polling, handlers registered),
\* "idle" (not polling, handlers registered), "bare" (not polling, no handlers)
BotStates == {"null", "polling", "idle", "bare"}

\* the awaits of the adapter: getMe() of a health check, the reconnection backoff,
\* setWebHook() of connect(), stopPolling() of disconnect(), a transport send
Awaits == {"probe", "backoff", "hook", "stop", "send"}

\* new TelegramAdapter(config); down is the set of shutdown operations that have
\* returned since connect() was last called
TgNew ==
    [config |-> CHOOSE c \in TgConfigs : c.token /\ c.polling /\ c.webhook = "off",
     bot |-> "null", isConnected |-> FALSE, timer |-> FALSE, live |-> 0,
     health |-> BaseHealthInit, messagesProcessed |-> 0, lastActivity |-> 1,
     down |-> {}]

TgPending == tPend["probe"] + tPend["backoff"] + tPend["hook"] + tPend["stop"]
             + tPend["send"]

Suspend(k) == [tPend EXCEPT ![k] = @ + 1]
Resume(k) == [tPend EXCEPT ![k] = @ - 1]

\* the tail of connect(): 'error' and 'webhook_error' handlers, flags, health, timer
TgConnected(r, bot, t) ==
    [r EXCEPT !.bot = bot, !.isConnected = TRUE, !.timer = TRUE,
              !.live = LiveAfterStart(r),
              !.health = UpdateHealthStatus(r.health, TRUE, NoError, t)]

\* connect(): what the call does in the adapter's state
TgConnectOutcome(r) ==
    IF ~r.config.token THEN "throws"
    ELSE IF r.config.webhook = "url" THEN "setWebHook" ELSE "connects"

\* connect() up to setWebHook(), or to its end in polling mode
TgConnect ==
    /\ variant = "telegram"
    /\ LET o == TgConnectOutcome(tg) IN
       CASE o = "throws" -> UNCHANGED tgVars
         [] o = "setWebHook" ->
               /\ TgPending < MaxPending
               /\ tg' = [tg EXCEPT !.bot = "bare", !.down = {}]
               /\ tPend' = Suspend("hook")
         [] OTHER ->
               /\ tg' = [TgConnected(tg, IF tg.config.webhook = "off"
                                         THEN "polling" ELSE "idle", now)
                            EXCEPT !.down = {}]
               /\ tPend' = tPend
    /\ UNCHANGED <<variant, now, zaloVars, sendVars, trackerVars, ioVars>>

\* connect() from the point where setWebHook() settles
TgConnectResume(ok) ==
    /\ variant = "telegram"
    /\ tPend["hook"] > 0
    /\ tPend' = Resume("hook")
    /\ tg' = IF ok /\ tg.bot # "null"
             THEN TgConnected(tg, IF tg.bot = "bare" THEN "idle" ELSE tg.bot, now)
             ELSE tg
    /\ UNCHANGED <<variant, now, zaloVars, sendVars, trackerVars, ioVars>>

\* a faulty forceShutdown(): isConnected is left as it was
TgForceShutdownKeepsConnected(r, t) ==
    [r EXCEPT !.timer = FALSE, !.live = LiveAfterStop(r), !.bot = "null",
              !.health = UpdateHealthStatus(r.health, FALSE, NoError, t),
              !.down = @ \cup {"forceShutdown"}]

\* forceShutdown(): the adapter's fields
TgForceShutdownFields(r, t) ==
    [r EXCEPT !.timer = FALSE, !.live = LiveAfterStop(r), !.bot = "null",
              !.isConnected = FALSE,
              !.health = UpdateHealthStatus(r.health, FALSE, NoError, t),
              !.down = @ \cup {"forceShutdown"}]

\* forceShutdown()
TgForceShutdown ==
    /\ variant = "telegram"
    /\ tg.health.consecutiveFailures < MaxFailures
    /\ tg' = TgForceShutdownFields(tg, now)
    /\ UNCHANGED <<variant, now, zaloVars, sendVars, tPend, trackerVars, ioVars>>

\* the tail of disconnect(): flags and health
TgDisconnected(r, t) ==
    [r EXCEPT !.bot = "null", !.isConnected = FALSE,
              !.health = UpdateHealthStatus(r.health, FALSE, NoError, t),
              !.down = @ \cup {"disconnect"}]

\* disconnect() up to stopPolling(), or to its end when there is no bot
TgDisconnect ==
    /\ variant = "telegram"
    /\ IF tg.bot # "null"
       THEN /\ TgPending < MaxPending
            /\ tPend' = Suspend("stop")
            /\ tg' = [tg EXCEPT !.timer = FALSE, !.live = LiveAfterStop(tg)]
       ELSE /\ tg.health.consecutiveFailures < MaxFailures
            /\ tPend' = tPend
            /\ tg' = TgDisconnected([tg EXCEPT !.timer = FALSE,
                                                !.live = LiveAfterStop(tg)], now)
    /\ UNCHANGED <<variant, now, zaloVars, sendVars, trackerVars, ioVars>>

\* disconnect() from the point where stopPolling() settles; it raises when
\* stopPolling() rejected or the bot was released meanwhile
TgDisconnectResume(ok) ==
    /\ variant = "telegram"
    /\ tPend["stop"] > 0
    /\ tPend' = Resume("stop")
    /\ IF ok /\ tg.bot # "null"
       THEN /\ tg.health.consecutiveFailures < MaxFailures
            /\ tg' = TgDisconnected(tg, now)
       ELSE tg' = tg
    /\ UNCHANGED <<variant, now, zaloVars, sendVars, trackerVars, ioVars>>

\* a faulty guard of sendMessage(): only the handle is tested
TgSendOutcomeHandleOnly(r) ==
    IF r.bot = "null" THEN "NotConnected" ELSE "dispatch"

\* sendMessage(): what the call does in the adapter's state
TgSendOutcome(r) ==
    IF r.bot = "null" \/ ~r.isConnected THEN "NotConnected" ELSE "dispatch"

\* sendMessage(): the not-connected guard, then the transport call
TgSendMessage ==
    /\ variant = "telegram"
    /\ IF TgSendOutcome(tg) = "NotConnected"
       THEN /\ outCalls + refused < MaxOut
            /\ refused' = refused + 1
            /\ UNCHANGED <<outCalls, tPend>>
       ELSE /\ outCalls + refused < MaxOut
            /\ TgPending < MaxPending
            /\ outCalls' = outCalls + 1
            /\ tPend' = Suspend("send")
            /\ refused' = refused
    /\ UNCHANGED <<variant, now, zaloVars, tg, trackerVars, ioVars>>

\* updateActivity()
UpdateActivity(r, t) ==
    [r EXCEPT !.lastActivity = t, !.messagesProcessed = @ + 1]

\* sendMessage() from the point where the transport call settles
TgSendResume(ok, msg) ==
    /\ variant = "telegram"
    /\ tPend["send"] > 0
    /\ tPend' = Resume("send")
    /\ IF ok
       THEN tg' = UpdateActivity(tg, now)
       ELSE /\ tg.health.consecutiveFailures < MaxFailures
            /\ tg' = [tg EXCEPT !.health = UpdateHealthStatus(@, FALSE, msg, now)]
    /\ UNCHANGED <<variant, now, zaloVars, sendVars, trackerVars, ioVars>>

\* one firing of the health-check interval, up to getMe()
TgTick ==
    /\ variant = "telegram"
    /\ tg.timer
    /\ IF tg.bot = "null" \/ ~tg.isConnected
       THEN /\ tg.health.consecutiveFailures < MaxFailures
            /\ tg' = [tg EXCEPT !.health =
                        UpdateHealthStatus(@, FALSE, "Bot not connected", now)]
            /\ tPend' = tPend
       ELSE /\ TgPending < MaxPending
            /\ tg' = tg
            /\ tPend' = Suspend("probe")
    /\ UNCHANGED <<variant, now, zaloVars, sendVars, trackerVars, ioVars>>

\* performHealthCheck() from the point where getMe() settles, up to the backoff of
\* the reconnection it starts
TgProbeResume(ok, msg) ==
    /\ variant = "telegram"
    /\ tPend["probe"] > 0
    /\ IF ok
       THEN /\ tg' = [tg EXCEPT !.health = UpdateHealthStatus(@, TRUE, NoError, now)]
            /\ tPend' = Resume("probe")
       ELSE LET h == UpdateHealthStatus(tg.health, FALSE, msg, now) IN
            /\ tg.health.consecutiveFailures < MaxFailures
            /\ IF h.consecutiveFailures >= MAX_CONSECUTIVE_FAILURES
               THEN /\ h.reconnectAttempts < MaxAttempts
                    /\ tg' = [tg EXCEPT !.health =
                                [h EXCEPT !.reconnectAttempts = @ + 1]]
                    /\ tPend' = [Resume("probe") EXCEPT !["backoff"] = @ + 1]
               ELSE /\ tg' = [tg EXCEPT !.health = h]
                    /\ tPend' = Resume("probe")
    /\ UNCHANGED <<variant, now, zaloVars, sendVars, trackerVars, ioVars>>

\* attemptReconnection() after the backoff: release the old bot, build a new one
TgBackoffDone(stopThrows, newThrows, msg) ==
    /\ variant = "telegram"
    /\ tPend["backoff"] > 0
    /\ tPend' = Resume("backoff")
    /\ LET cleaned == IF tg.bot = "null" \/ stopThrows THEN tg.bot ELSE "bare" IN
       IF newThrows
       THEN /\ tg.health.consecutiveFailures < MaxFailures
            /\ tg' = [tg EXCEPT !.bot = cleaned,
                                !.health = UpdateHealthStatus(@, FALSE, msg, now)]
       ELSE tg' = [tg EXCEPT !.bot = IF tg.config.polling THEN "polling" ELSE "idle",
                             !.isConnected = TRUE,
                             !.health = UpdateHealthStatus(@, TRUE, NoError, now)]
    /\ UNCHANGED <<variant, now, zaloVars, sendVars, trackerVars, ioVars>>

\* the transport errors the bot's handlers receive: a code and a message
BotErrors ==
    { [code |-> "EFATAL", msg |-> "socket hang up"],
      [code |-> "EFATAL", msg |-> "EFATAL"],
      [code |-> "ETELEGRAM", msg |-> "401 Unauthorized"],
      [code |-> "ETELEGRAM", msg |-> "e1"] }

IsNetworkError(e) == e.msg \in {"socket hang up", "ECONNRESET", "ETIMEDOUT"}

IsCriticalError(e) ==
    \/ e.code = "EFATAL" /\ ~IsNetworkError(e)
    \/ e.msg \in {"401 Unauthorized"}

\* the bot's 'error', 'polling_error' and 'webhook_error' events:
\* handleConnectionError(error)
TgBotError(e) ==
    /\ variant = "telegram"
    /\ tg.bot \in {"polling", "idle"}
    /\ tg.health.consecutiveFailures + 1 < MaxFailures
    /\ LET r == [tg EXCEPT !.health = UpdateHealthStatus(@, FALSE, e.msg, now)] IN
       tg' = IF IsCriticalError(e) THEN TgForceShutdownFields(r, now) ELSE r
    /\ UNCHANGED <<variant, now, zaloVars, sendVars, tPend, trackerVars, ioVars>>

\* the catch of handleTelegramMessage(): the callback or the reply's send
\* raised while a message was handled
TgInboundFails(msg) ==
    /\ variant = "telegram"
    /\ tg.bot \in {"polling", "idle"}
    /\ tg.health.consecutiveFailures + 1 < MaxFailures
    /\ tg' = [tg EXCEPT !.health = UpdateHealthStatus(@, FALSE, msg, now)]
    /\ UNCHANGED <<variant, now, zaloVars, sendVars, tPend, trackerVars, ioVars>>

TgLifeNext ==
    \/ TgConnect
    \/ \E ok \in BOOLEAN : TgConnectResume(ok)
    \/ TgForceShutdown
    \/ TgDisconnect
    \/ \E ok \in BOOLEAN : TgDisconnectResume(ok)
    \/ TgSendMessage
    \/ \E ok \in BOOLEAN, m \in ErrMsgs : TgSendResume(ok, m)
    \/ TgTick
    \/ \E ok \in BOOLEAN, m \in ErrMsgs : TgProbeResume(ok, m)
    \/ \E st \in BOOLEAN, nt \in BOOLEAN, m \in ErrMsgs : TgBackoffDone(st, nt, m)
    \/ \E e \in BotErrors : TgBotError(e)
    \/ \E m \in ErrMsgs : TgInboundFails(m)

\* the orchestrator's use of one adapter: a single create(), then the whole life
\* of the instance it returns
ZaloLifeNext ==
    \/ \E cfgOk \in BOOLEAN : ZaloCreateEnter(1, cfgOk)
    \/ \E o \in LoginOutcomes, m \in ErrMsgs : ZaloCreateResume(1, o, m)
    \/ ZaloConnect(1)
    \/ \E o \in LoginOutcomes, m \in ErrMsgs : ZaloConnectResume(1, o, m)
    \/ ZaloForceShutdown(1)
    \/ ZaloDisconnect(1)
    \/ ZaloSendMessage(1)
    \/ ZaloTick(1)
    \/ \E st \in BOOLEAN : ZaloBackoffDone(1, st)
    \/ \E o \in LoginOutcomes : ZaloReconnectResume(1, o)
    \/ \E m \in ListenerErrors : ZaloListenerError(1, m)
    \/ ZaloListenerLost(1)

\* the singleton guard under any interleaving of create() calls, with the events
\* that make a registered instance unhealthy, healthy again, or shut down
ZaloGuardNext ==
    \/ \E c \in Calls, cfgOk \in BOOLEAN : ZaloCreateEnter(c, cfgOk)
    \/ \E c \in Calls, o \in LoginOutcomes, m \in ErrMsgs : ZaloCreateResume(c, o, m)
    \/ \E i \in Inst : ZaloForceShutdown(i)
    \/ \E i \in Inst : ZaloDisconnect(i)
    \/ \E i \in Inst : ZaloTick(i)
    \/ \E i \in Inst, m \in ErrMsgs : ZaloListenerError(i, m)

----------------------------------------------------------------------------
(* Inbound messages: payloads, normalization, validation *)

MAX_CONTENT_LENGTH == 4096

\* the text of a payload: its length and its length after trim(); an absent text
\* and the empty string are both falsy, length 0
Lengths == {0, 1, MAX_CONTENT_LENGTH, MAX_CONTENT_LENGTH + 1}
Contents == {[len |-> l, trimmed |-> t] : l \in Lengths, t \in {0}} \cup
            {[len |-> l, trimmed |-> l] : l \in Lengths}
Falsy(c) == c.len = 0

\* '[Empty message]', '[Unsupported message type]', '[Unknown message type]'
EmptyMessage == [len |-> 15, trimmed |-> 15]
UnsupportedMessage == [len |-> 26, trimmed |-> 26]
UnknownMessage == [len |-> 22, trimmed |-> 22]

\* what the Zalo listener delivers: nothing, the structure with a data object
\* (data.uidFrom, data.content), or the structure with a sender object
\* (sender.id, threadID, body or text)
NullPayload ==
    [null |-> TRUE, data |-> FALSE, uidFrom |-> FALSE, senderId |-> FALSE,
     thread |-> FALSE, content |-> [len |-> 0, trimmed |-> 0]]
ZaloPayloads ==
    {NullPayload} \cup
    {q \in [null : {FALSE}, data : BOOLEAN, uidFrom : BOOLEAN, senderId : BOOLEAN,
            thread : BOOLEAN, content : Contents] :
        /\ q.uidFrom => q.data
        /\ q.thread => ~q.data}

\* what the Telegram bot delivers: a message whose `from` is absent, has no id, is a
\* user or is a bot, with its text
TgPayloads == [from : {"absent", "noid", "user", "bot"}, content : Contents]

\* handleZaloMessage(): hasValidSender
ZaloHasValidSender(q) == (q.data /\ q.uidFrom) \/ q.senderId

\* a metadata field the message does not carry
NoField == "undefined"

\* the conversation of a Zalo payload: uidFrom, or threadID || sender.id
ZaloThread(q) ==
    IF q.data THEN (IF q.uidFrom THEN "uid" ELSE "unknown")
    ELSE IF q.thread THEN "tid"
    ELSE IF q.senderId THEN "sid" ELSE "unknown"

\* normalizeMessage(); threadId is the conversation the handler answers to,
\* metadataThreadId the message's metadata.threadId
ZaloNormalizeMessage(q) ==
    IF q.data
    THEN [content |-> IF Falsy(q.content) THEN EmptyMessage ELSE q.content,
          senderId |-> IF q.uidFrom THEN "uid" ELSE "unknown",
          threadId |-> ZaloThread(q),
          metadataThreadId |-> ZaloThread(q)]
    ELSE [content |-> IF Falsy(q.content) THEN UnsupportedMessage ELSE q.content,
          senderId |-> IF q.senderId THEN "sid" ELSE "unknown",
          threadId |-> ZaloThread(q),
          metadataThreadId |-> ZaloThread(q)]

\* a validateMessage() without the size ceiling
ZaloValidateNoCeiling(m) ==
    /\ ~(Falsy(m.content) \/ m.content.trimmed = 0)
    /\ m.senderId # "unknown"

\* ZaloAdapter.validateMessage()
ZaloValidateMessage(m) ==
    /\ ~(Falsy(m.content) \/ m.content.trimmed = 0)
    /\ m.senderId # "unknown"
    /\ ~(m.content.len > MAX_CONTENT_LENGTH)

\* handleTelegramMessage(): the Message it builds; `from.id.toString()` raises on a
\* `from` without id; the handler answers to chat.id, and the metadata it
\* builds holds chat_id, chat_type and username
TgNormalizeThrows(q) == q.from = "noid"
TgNormalizeMessage(q) ==
    [content |-> IF Falsy(q.content) THEN UnknownMessage ELSE q.content,
     senderId |-> IF q.from = "absent" THEN "unknown" ELSE "id",
     threadId |-> "chat",
     metadataThreadId |-> NoField]

\* a validateMessage() that does not look at the sender
TgValidateIgnoresSender(m) ==
    /\ ~Falsy(m.content)
    /\ m.content.trimmed > 0
    /\ m.content.len <= MAX_CONTENT_LENGTH

\* TelegramAdapter.validateMessage()
TgValidateMessage(m) ==
    /\ ~Falsy(m.content)
    /\ m.content.trimmed > 0
    /\ m.senderId # "unknown"
    /\ m.content.len <= MAX_CONTENT_LENGTH

----------------------------------------------------------------------------
(* Inbound messages: the handler, the callback, the replies *)

MaxRegistrations == 2
CallbackIds == {1, 2}
UserIds == {"u1", "u2"}

NoMessage == [content |-> [len |-> 0, trimmed |-> 0], senderId |-> "unknown",
              threadId |-> "unknown", metadataThreadId |-> NoField]
Absent == [present |-> FALSE, id |-> "none", name |-> "none"]

\* messageCallback (Null: none registered) with the registrations made so far;
\* the transport handle and the connected flag; then what the handler did with
\* the payload it handled last: the Message it built, the callbacks it invoked,
\* the apology routine's invocations, the transport calls [to, what], whether
\* the callback is still running, whether the handler's promise rejected, how
\* many failures it recorded in the health tracker; the result of getUser()
InbNew ==
    [callback |-> Null, regs |-> <<>>, handle |-> FALSE, connected |-> FALSE,
     handled |-> FALSE, payload |-> NullPayload, path |-> "none",
     msg |-> NoMessage, invoked |-> <<>>, apologies |-> <<>>, sent |-> <<>>,
     pending |-> FALSE, threw |-> FALSE, failures |-> 0, user |-> Absent]

\* onMessage(callback): the keep-the-first variant, then the code
OnMessageKeepsFirst(cur, cb) == IF cur = Null THEN cb ELSE cur
OnMessageField(cur, cb) == cb

OnMessage(cb) ==
    /\ Len(inb.regs) < MaxRegistrations
    /\ inb' = [inb EXCEPT !.callback = OnMessageField(inb.callback, cb),
                          !.regs = Append(inb.regs, cb)]
    /\ UNCHANGED <<variant, now, zaloVars, sendVars, tgVars, trackerVars, orch, nm, ord>>

\* sendErrorResponse(text, message): api.sendMessage(text, threadId || senderId)
\* inside try/catch; without the handle the call raises before the transport
ZaloSendErrorResponse(r, what) ==
    [r EXCEPT !.apologies = Append(r.apologies, [to |-> r.msg.threadId, what |-> what]),
              !.sent = IF r.handle
                       THEN Append(r.sent, [to |-> r.msg.threadId, what |-> what])
                       ELSE r.sent]

\* sendErrorMessage(text, telegramMessage): returns without the bot, else
\* bot.sendMessage(chat.id, text) inside try/catch
TgSendErrorMessage(r, what) ==
    [r EXCEPT !.apologies = Append(r.apologies, [to |-> "chat", what |-> what]),
              !.sent = IF r.handle
                       THEN Append(r.sent, [to |-> "chat", what |-> what])
                       ELSE r.sent]

\* handleZaloMessage(zaloMessage) up to its first await
ZaloHandleMessage(r, q) ==
    LET fresh == [r EXCEPT !.handled = TRUE, !.payload = q, !.msg = NoMessage,
                           !.invoked = <<>>, !.apologies = <<>>, !.sent = <<>>,
                           !.pending = FALSE, !.threw = FALSE, !.failures = 0]
    IN  IF q.null \/ r.callback = Null \/ ~ZaloHasValidSender(q)
        THEN [fresh EXCEPT !.path = "skipped"]
        ELSE LET built == [fresh EXCEPT !.msg = ZaloNormalizeMessage(q)]
             IN  IF ~ZaloValidateMessage(built.msg)
                 THEN ZaloSendErrorResponse([built EXCEPT !.path = "rejected"], "apology")
                 ELSE [built EXCEPT !.path = "forwarded",
                                    !.invoked = <<r.callback>>,
                                    !.pending = TRUE]

\* handleTelegramMessage(telegramMessage) up to its first await; the Message is
\* built inside the try, whose catch records a failure and returns
TgHandleMessage(r, q) ==
    LET fresh == [r EXCEPT !.handled = TRUE, !.payload = q, !.msg = NoMessage,
                           !.invoked = <<>>, !.apologies = <<>>, !.sent = <<>>,
                           !.pending = FALSE, !.threw = FALSE, !.failures = 0]
    IN  IF r.callback = Null \/ q.from = "bot"
        THEN [fresh EXCEPT !.path = "skipped"]
        ELSE IF TgNormalizeThrows(q)
        THEN [fresh EXCEPT !.path = "failed", !.failures = 1]
        ELSE LET built == [fresh EXCEPT !.msg = TgNormalizeMessage(q)]
             IN  IF ~TgValidateMessage(built.msg)
                 THEN TgSendErrorMessage([built EXCEPT !.path = "rejected"], "apology")
                 ELSE [built EXCEPT !.path = "forwarded",
                                    !.invoked = <<r.callback>>,
                                    !.pending = TRUE]

\* the listener / the bot delivers a payload
InboundArrives ==
    /\ ~inb.pending
    /\ \/ /\ variant = "zalo"
          /\ \E q \in ZaloPayloads : inb' = ZaloHandleMessage(inb, q)
       \/ /\ variant = "telegram"
          /\ \E q \in TgPayloads : inb' = TgHandleMessage(inb, q)
    /\ UNCHANGED <<variant, now, zaloVars, sendVars, tgVars, trackerVars, orch, nm, ord>>

\* handleZaloMessage() after the callback: the reply goes out through
\* sendMessage(threadId, response); whatever raises is answered by the error
\* text through sendErrorResponse()
ZaloAfterCallback(r, outcome, sendOk) ==
    LET done == [r EXCEPT !.pending = FALSE]
        call == [done EXCEPT !.sent = Append(r.sent, [to |-> r.msg.threadId,
                                                      what |-> "reply"])]
    IN  CASE outcome = "none" -> done
          [] outcome = "throws" -> ZaloSendErrorResponse(done, "error")
          [] OTHER ->
               IF ~(r.handle /\ r.connected) THEN ZaloSendErrorResponse(done, "error")
               ELSE IF sendOk THEN call
               ELSE ZaloSendErrorResponse(call, "error")

\* handleTelegramMessage() after the callback: the reply goes out through
\* sendMessage(chat.id, response), which records its own failure and raises;
\* the catch records a failure
TgAfterCallback(r, outcome, sendOk) ==
    LET done == [r EXCEPT !.pending = FALSE]
        call == [done EXCEPT !.sent = Append(r.sent, [to |-> "chat", what |-> "reply"])]
    IN  CASE outcome = "none" -> done
          [] outcome = "throws" -> [done EXCEPT !.failures = 1]
          [] OTHER ->
               IF ~(r.handle /\ r.connected) THEN [done EXCEPT !.failures = 1]
               ELSE IF sendOk THEN call
               ELSE [call EXCEPT !.failures = 2]

\* the callback settles and the handler runs to its end
CallbackSettles(outcome, sendOk) ==
    /\ inb.pending
    /\ inb' = IF variant = "zalo" THEN ZaloAfterCallback(inb, outcome, sendOk)
              ELSE TgAfterCallback(inb, outcome, sendOk)
    /\ UNCHANGED <<variant, now, zaloVars, sendVars, tgVars, trackerVars, orch, nm, ord>>

\* BaseAdapter.getUser(userId)
BaseGetUser(userId) == Absent

\* ZaloAdapter.getUser(userId)
ZaloGetUser(userId) == [present |-> TRUE, id |-> userId, name |-> "Zalo Personal User"]

\* TelegramAdapter.getUser(userId): null without the bot or the connection and
\* when getChatMember() fails
TgGetUser(r, userId, ok) ==
    IF r.handle /\ r.connected /\ ok
    THEN [present |-> TRUE, id |-> userId, name |-> "member"]
    ELSE Absent

GetUser(userId, ok) ==
    /\ inb' = [inb EXCEPT !.user = IF variant = "zalo" THEN ZaloGetUser(userId)
                                   ELSE TgGetUser(inb, userId, ok)]
    /\ UNCHANGED <<variant, now, zaloVars, sendVars, tgVars, trackerVars, orch, nm, ord>>

InboundNext ==
    \/ \E cb \in CallbackIds : OnMessage(cb)
    \/ InboundArrives
    \/ \E o \in {"response", "none", "throws"}, ok \in BOOLEAN : CallbackSettles(o, ok)
    \/ \E u \in UserIds, ok \in BOOLEAN : GetUser(u, ok)

----------------------------------------------------------------------------
(* The orchestrator: handleMessage() and shutdown() *)

MessageTexts == {"", "hi", "Echo: hi"}
MessageTypes == {"text", "image"}
Messages == [content : MessageTexts, messageType : MessageTypes]

\* the agent call: a text, an empty answer, a failure inside the client, and a
\* client whose promise rejects
AgentOutcomes == {"text", "empty", "failed", "rejects"}

ClientApology == "Sorry, I encountered an error processing your request. Please try again later."
HandlerApology == "Sorry, I encountered an error processing your message. Please try again."

NoReply == [content |-> "", messageType |-> "none", mode |-> "none"]

\* MastraClient.sendMessage(message): what it resolves with
MastraSendMessage(m, agent) ==
    CASE agent = "text" -> [content |-> "answer", messageType |-> "text", mode |-> "agent"]
      [] agent = "empty" ->
           [content |-> "No response from agent", messageType |-> "text", mode |-> "agent"]
      [] OTHER -> [content |-> ClientApology, messageType |-> "text", mode |-> "agent"]

\* the content of the reply in repeat mode
EchoContent(text) == "Echo: " \o text

\* a handleMessage() without its catch: a rejected agent call yields no reply
HandleMessageNoCatch(m, echo, agent) ==
    IF echo
    THEN [content |-> EchoContent(m.content), messageType |-> m.messageType,
          mode |-> "repeat"]
    ELSE IF agent = "rejects" THEN NoReply
    ELSE MastraSendMessage(m, agent)

\* ChatIntegration.handleMessage(message): the reply it resolves with
HandleMessageReply(m, echo, agent) ==
    IF echo
    THEN [content |-> EchoContent(m.content), messageType |-> m.messageType,
          mode |-> "repeat"]
    ELSE IF agent = "rejects"
    THEN [content |-> HandlerApology, messageType |-> m.messageType, mode |-> "error"]
    ELSE MastraSendMessage(m, agent)

\* the adapters a ChatIntegration can hold, in the order initializePlatforms()
\* inserts them; `force` tells whether the adapter has a forceShutdown function
Platforms == <<"telegram", "zalo-personal">>
AdapterMaps ==
    UNION {[1 .. n -> [platform : {Platforms[k] : k \in 1 .. Len(Platforms)},
                       force : BOOLEAN]] : n \in 0 .. Len(Platforms)}
OrderedMap(a) ==
    \A j, k \in 1 .. Len(a) :
        j < k => \E x, y \in 1 .. Len(Platforms) :
                    x < y /\ a[j].platform = Platforms[x] /\ a[k].platform = Platforms[y]

\* adapters, isRunning and REPEAT_MODE; the last handleMessage() call: its
\* message, its reply, the agent calls it made, whether it rejected; shutdown():
\* where it stands, the attempts it made [platform, op], the errors it caught,
\* whether it rejected
OrchNew ==
    [adapters |-> <<>>, isRunning |-> FALSE, echo |-> FALSE,
     handled |-> FALSE, message |-> [content |-> "", messageType |-> "text"],
     reply |-> NoReply, agent |-> "none", agentCalls |-> 0, hmThrew |-> FALSE,
     sd |-> "idle", attempts |-> <<>>, errors |-> 0, sdThrew |-> FALSE]

\* handleMessage(message), with the outcome of the agent call it may make
HandleMessage(m, agent) ==
    /\ orch' = [orch EXCEPT !.handled = TRUE,
                            !.message = m,
                            !.reply = HandleMessageReply(m, orch.echo, agent),
                            !.agent = IF orch.echo THEN "none" ELSE agent,
                            !.agentCalls = IF orch.echo THEN 0 ELSE 1,
                            !.hmThrew = FALSE]
    /\ UNCHANGED <<variant, now, zaloVars, sendVars, tgVars, trackerVars, inb, nm, ord>>

\* the operation shutdown() calls on an adapter
ShutdownOp(a) == IF a.force THEN "forceShutdown" ELSE "disconnect"

\* shutdown() up to its first await: the first adapter's operation is called, or,
\* with an empty map, the whole body
ShutdownCall ==
    /\ orch.sd # "loop"
    /\ orch' = IF orch.adapters = <<>>
               THEN [orch EXCEPT !.sd = "done", !.attempts = <<>>, !.errors = 0,
                                 !.isRunning = FALSE, !.sdThrew = FALSE]
               ELSE [orch EXCEPT !.sd = "loop", !.errors = 0, !.sdThrew = FALSE,
                                 !.attempts = <<[platform |-> orch.adapters[1].platform,
                                                 op |-> ShutdownOp(orch.adapters[1])]>>]
    /\ UNCHANGED <<variant, now, zaloVars, sendVars, tgVars, trackerVars, inb, nm, ord>>

\* a loop that gives up at the first error: the map is kept, the call rejects
ShutdownRethrows(o, threw) ==
    IF threw
    THEN [o EXCEPT !.sd = "done", !.errors = o.errors + 1, !.sdThrew = TRUE]
    ELSE IF Len(o.attempts) < Len(o.adapters)
    THEN [o EXCEPT !.attempts = Append(o.attempts,
                      [platform |-> o.adapters[Len(o.attempts) + 1].platform,
                       op |-> ShutdownOp(o.adapters[Len(o.attempts) + 1])])]
    ELSE [o EXCEPT !.sd = "done", !.adapters = <<>>, !.isRunning = FALSE]

\* shutdown() from the settlement of the awaited operation: an error is caught
\* and logged; the loop calls the next adapter's operation or, after the last,
\* clears the map and the running flag
ShutdownResume(o, threw) ==
    LET k == Len(o.attempts)
        counted == [o EXCEPT !.errors = o.errors + IF threw THEN 1 ELSE 0]
    IN  IF k < Len(o.adapters)
        THEN [counted EXCEPT
                 !.attempts = Append(o.attempts,
                     [platform |-> o.adapters[k + 1].platform,
                      op |-> ShutdownOp(o.adapters[k + 1])])]
        ELSE [counted EXCEPT !.sd = "done", !.adapters = <<>>, !.isRunning = FALSE]

\* the awaited operation of an adapter resolves or rejects
ShutdownSettles(threw) ==
    /\ orch.sd = "loop"
    /\ orch' = ShutdownResume(orch, threw)
    /\ UNCHANGED <<variant, now, zaloVars, sendVars, tgVars, trackerVars, inb, nm, ord>>

OrchNext ==
    \/ \E m \in Messages, a \in AgentOutcomes : HandleMessage(m, a)
    \/ ShutdownCall
    \/ \E threw \in BOOLEAN : ShutdownSettles(threw)

----------------------------------------------------------------------------
(* Normalization as a function of the raw payload *)

\* an absent field of a payload; `a || b` on optional strings
Missing == "<missing>"
FalsyText(a) == a \in {Missing, ""}
OrElse(a, b) == IF FalsyText(a) THEN b ELSE a

\* the payloads of the Zalo listener: the shape with a data object (content,
\* uidFrom, dName, msgId) and the flat shape (body, text, photo, file,
\* sender.id, sender.name, threadID, id); msgId holds the identifier of either
\* shape
ZaloRaw ==
    [data : {TRUE}, content : {Missing, "hi"}, uidFrom : {Missing, "u1"},
     dName : {Missing, "Bob"},
     body : {Missing}, text : {Missing}, photo : {FALSE}, file : {FALSE},
     senderId : {Missing}, senderName : {Missing}, threadID : {Missing},
     msgId : {Missing, "m1"}]
    \cup
    [data : {FALSE}, content : {Missing}, uidFrom : {Missing}, dName : {Missing},
     body : {Missing, "yo"}, text : {Missing, "", "hi"}, photo : BOOLEAN,
     file : BOOLEAN, senderId : {Missing, "u1"}, senderName : {Missing, "Bob"},
     threadID : {Missing, "t1"}, msgId : {Missing, "m1"}]

\* the id of normalizeMessage()'s result: the payload's, or
\* Date.now().toString()
ZaloMessageId(q) == OrElse(q.msgId, ToString(now))

\* a normalizeMessage() that reads the text of a flat payload from `body` only
NormalizeMessageBodyOnly(q) ==
    IF q.data
    THEN [content |-> OrElse(q.content, "[Empty message]"),
          senderId |-> OrElse(q.uidFrom, "unknown"),
          senderName |-> OrElse(q.dName, "Unknown Sender"),
          messageType |-> "text",
          threadId |-> OrElse(q.uidFrom, "unknown")]
    ELSE [content |-> OrElse(q.body, "[Unsupported message type]"),
          senderId |-> OrElse(q.senderId, "unknown"),
          senderName |-> OrElse(q.senderName, "Unknown Sender"),
          messageType |-> "text",
          threadId |-> OrElse(q.threadID, OrElse(q.senderId, "unknown"))]

\* ZaloAdapter.normalizeMessage(zaloMessage)
NormalizeMessage(q) ==
    IF q.data
    THEN [content |-> OrElse(q.content, "[Empty message]"),
          senderId |-> OrElse(q.uidFrom, "unknown"),
          senderName |-> OrElse(q.dName, "Unknown Sender"),
          messageType |-> "text",
          threadId |-> OrElse(q.uidFrom, "unknown")]
    ELSE LET kind == IF ~FalsyText(q.body) \/ ~FalsyText(q.text) THEN "text"
                     ELSE IF q.photo THEN "photo"
                     ELSE IF q.file THEN "file" ELSE "other"
         IN  [content |-> CASE kind = "text" -> OrElse(q.body, q.text)
                            [] kind = "photo" -> "[Image message]"
                            [] kind = "file" -> "[File message]"
                            [] OTHER -> "[Unsupported message type]",
              senderId |-> OrElse(q.senderId, "unknown"),
              senderName |-> OrElse(q.senderName, "Unknown Sender"),
              messageType |-> CASE kind = "photo" -> "image"
                                [] kind = "file" -> "file"
                                [] OTHER -> "text",
              threadId |-> OrElse(q.threadID, OrElse(q.senderId, "unknown"))]

\* the messages of the Telegram bot: text, caption, the media objects (a sticker
\* with or without emoji, a document with or without file name), the sender
TgRaw ==
    [text : {Missing, "hi"}, caption : {Missing, "cap"}, photo : BOOLEAN,
     sticker : {Missing, "", ":)"}, document : {Missing, "", "a.pdf"},
     audio : BOOLEAN, video : BOOLEAN, location : BOOLEAN,
     fromId : {Missing, "u1"}, firstName : {"Bob"}, messageId : {Missing, "m1"}]

\* handleTelegramMessage(): `telegramMessage.message_id.toString()` raises on a
\* payload without message_id, and the handler's catch takes over
TgCanonicalThrows(m) == m.messageId = Missing

\* TelegramAdapter.extractMessageContent(telegramMessage); a sticker or document
\* that is present without emoji or file name is the empty string here
ExtractMessageContent(m) ==
    IF ~FalsyText(m.text) THEN m.text
    ELSE IF ~FalsyText(m.caption) THEN m.caption
    ELSE IF m.sticker # Missing THEN OrElse(m.sticker, "[Sticker]")
    ELSE IF m.photo THEN "[Photo]"
    ELSE IF m.document # Missing THEN OrElse(m.document, "[Document]")
    ELSE IF m.audio THEN "[Audio]"
    ELSE IF m.video THEN "[Video]"
    ELSE IF m.location THEN "[Location]"      \* the coordinates are left out
    ELSE "[Unknown message type]"

\* TelegramAdapter.getMessageType(telegramMessage)
GetMessageType(m) ==
    IF ~FalsyText(m.text) THEN "text"
    ELSE IF m.photo THEN "image"
    ELSE IF m.document # Missing THEN "file"
    ELSE IF m.audio THEN "audio"
    ELSE IF m.video THEN "video"
    ELSE IF m.sticker # Missing THEN "sticker"
    ELSE IF m.location THEN "location"
    ELSE "text"

\* handleTelegramMessage(): the canonical message it builds
TgCanonical(m) ==
    [content |-> ExtractMessageContent(m),
     senderId |-> OrElse(m.fromId, "unknown"),
     senderName |-> m.firstName,
     messageType |-> GetMessageType(m),
     threadId |-> "chat"]

NoCanonical ==
    [content |-> Missing, senderId |-> Missing, senderName |-> Missing,
     messageType |-> Missing, threadId |-> Missing]

\* the payload under test and, once normalized, its canonical message and the
\* id of that message; whether building the message raised; the health record
\* of the adapter
NmNew == [raw |-> CHOOSE q \in ZaloRaw : q.data /\ q.content = Missing
                                         /\ q.uidFrom = Missing /\ q.dName = Missing
                                         /\ q.msgId = Missing,
          done |-> FALSE, msg |-> NoCanonical, id |-> Missing, threw |-> FALSE,
          health |-> BaseHealthInit]

\* the message of the TypeError raised by a call on an absent field
TypeErrorMessage == "Cannot read properties of undefined"

ZaloNormalize ==
    /\ variant = "zalo"
    /\ ~nm.done
    /\ nm' = [nm EXCEPT !.done = TRUE, !.msg = NormalizeMessage(nm.raw),
                        !.id = ZaloMessageId(nm.raw)]
    /\ UNCHANGED <<variant, now, zaloVars, sendVars, tgVars, trackerVars, inb, orch, ord>>

\* the try block of handleTelegramMessage() up to the Message, and its catch
TgNormalize ==
    /\ variant = "telegram"
    /\ ~nm.done
    /\ nm' = IF TgCanonicalThrows(nm.raw)
             THEN [nm EXCEPT !.done = TRUE, !.threw = TRUE,
                             !.health = UpdateHealthStatus(@, FALSE, TypeErrorMessage, now)]
             ELSE [nm EXCEPT !.done = TRUE, !.msg = TgCanonical(nm.raw),
                             !.id = nm.raw.messageId]
    /\ UNCHANGED <<variant, now, zaloVars, sendVars, tgVars, trackerVars, inb, orch, ord>>

NormalizeNext ==
    \/ ZaloNormalize
    \/ TgNormalize

----------------------------------------------------------------------------
(* Inbound messages in flight: the order of callbacks and replies *)

MaxDelivered == 3

\* the texts of the messages the transport delivers; all of them pass
\* validateMessage()
OrderTexts == {"hi", "yo"}

\* the outcomes of an agent call that decide the reply
OrderOutcomes == {"text", "rejects"}

\* REPEAT_MODE; the messages delivered, in order; the messages the callback
\* was invoked for, in order; the handlers suspended at `await
\* this.messageCallback(...)`, oldest first; the replies handed to the
\* transport, in order
OrdNew ==
    [echo |-> FALSE, delivered |-> <<>>, invoked |-> <<>>, waiting |-> <<>>,
     replies |-> <<>>]

\* a sequence without its k-th element
RemoveAt(q, k) == [j \in 1 .. Len(q) - 1 |-> IF j < k THEN q[j] ELSE q[j + 1]]

\* which suspended handler may resume: in repeat mode handleMessage() returns
\* without suspending, so the handlers resume in the order they were started;
\* otherwise each resumes when its own agent call settles
OrderSettles(k) == ord.echo => k = 1

\* the transport emits 'message': handleZaloMessage() / handleTelegramMessage()
\* runs up to `await this.messageCallback(message)`, which starts handleMessage()
OrderArrives(text) ==
    /\ Len(ord.delivered) < MaxDelivered
    /\ LET id == Len(ord.delivered) + 1 IN
       ord' = [ord EXCEPT !.delivered = Append(@, [id |-> id, content |-> text]),
                          !.invoked = Append(@, id),
                          !.waiting = Append(@, id)]
    /\ UNCHANGED <<variant, now, zaloVars, sendVars, tgVars, trackerVars, inb, orch, nm>>

\* the callback of the k-th suspended handler settles: the handler resumes and
\* hands the reply to sendMessage()
OrderCallbackSettles(k, agent) ==
    /\ k \in 1 .. Len(ord.waiting)
    /\ OrderSettles(k)
    /\ LET id == ord.waiting[k]
           m == [content |-> ord.delivered[id].content, messageType |-> "text"]
           reply == HandleMessageReply(m, ord.echo, agent)
       IN ord' = [ord EXCEPT !.waiting = RemoveAt(@, k),
                             !.replies = Append(@, [to |-> id,
                                                    content |-> reply.content])]
    /\ UNCHANGED <<variant, now, zaloVars, sendVars, tgVars, trackerVars, inb, orch, nm>>

OrderNext ==
    \/ \E t \in OrderTexts : OrderArrives(t)
    \/ \E k \in 1 .. MaxDelivered, a \in OrderOutcomes : OrderCallbackSettles(k, a)

----------------------------------------------------------------------------
\* the state after construction; the adapter under analysis has any of the
\* configurations, the health tracker under test is idle
Init ==
    /\ variant \in {"zalo", "telegram"}
    /\ now = 1
    /\ globalInstance = Null
    /\ z = [i \in Inst |-> NoInstance]
    /\ cpc = [c \in Calls |-> "idle"]
    /\ cold = [c \in Calls |-> Null]
    /\ cret = [c \in Calls |-> Null]
    /\ zConn = [i \in Inst |-> 0]
    /\ zBackoff = [i \in Inst |-> 0]
    /\ zLogin = [i \in Inst |-> 0]
    /\ outCalls = 0
    /\ refused = 0
    /\ tg \in IF variant = "telegram"
              THEN {[TgNew EXCEPT !.config = c] : c \in TgConfigs}
              ELSE {TgNew}
    /\ tPend = [k \in Awaits |-> 0]
    /\ hs = BaseHealthInit
    /\ hsPrev = BaseHealthInit
    /\ hsCall = NoCall
    /\ inb = InbNew
    /\ orch = OrchNew
    /\ nm = NmNew
    /\ ord = OrdNew

Next ==
    \/ ZaloLifeNext
    \/ TgLifeNext

Spec == Init /\ [][Next]_vars

GuardInit == Init /\ variant = "zalo"

SpecGuard == GuardInit /\ [][ZaloGuardNext]_vars

----------------------------------------------------------------------------
(* The health tracker as a function: any record, any update *)

TrackerInit ==
    /\ variant \in {"zalo", "telegram"}
    /\ now \in 1 .. MaxNow
    /\ globalInstance = Null
    /\ z = [i \in Inst |-> NoInstance]
    /\ cpc = [c \in Calls |-> "idle"]
    /\ cold = [c \in Calls |-> Null]
    /\ cret = [c \in Calls |-> Null]
    /\ zConn = [i \in Inst |-> 0]
    /\ zBackoff = [i \in Inst |-> 0]
    /\ zLogin = [i \in Inst |-> 0]
    /\ outCalls = 0
    /\ refused = 0
    /\ tg = TgNew
    /\ tPend = [k \in Awaits |-> 0]
    /\ hs \in IF variant = "telegram" THEN BaseHealthRecords ELSE ZaloHealthRecords
    /\ hsPrev = hs
    /\ hsCall = NoCall
    /\ inb = InbNew
    /\ orch = OrchNew
    /\ nm = NmNew
    /\ ord = OrdNew

\* updateHealthStatus(success, error) on the record under test
TrackerUpdate(success, error) ==
    /\ ~success => hs.consecutiveFailures < MaxFailures
    /\ variant = "zalo" => error = NoError
    /\ hsPrev' = hs
    /\ hsCall' = [op |-> "update", success |-> success, error |-> error, t |-> now,
                  healthy |-> FALSE]
    /\ hs' = IF variant = "telegram"
             THEN UpdateHealthStatus(hs, success, error, now)
             ELSE ZaloUpdateHealthStatus(hs, success, now)
    /\ UNCHANGED <<variant, now, zaloVars, sendVars, tgVars, ioVars>>

\* isHealthy() on the record under test
TrackerIsHealthy ==
    /\ hsCall' = [NoCall EXCEPT !.op = "isHealthy",
                                !.healthy = IF variant = "telegram"
                                            THEN IsHealthy(hs)
                                            ELSE ZaloIsHealthy(hs)]
    /\ UNCHANGED <<variant, now, zaloVars, sendVars, tgVars, hs, hsPrev, ioVars>>

\* time passes between two calls
TrackerClock ==
    /\ now < MaxNow
    /\ now' = now + 1
    /\ UNCHANGED <<variant, zaloVars, sendVars, tgVars, trackerVars, ioVars>>

TrackerNext ==
    \/ \E ok \in BOOLEAN, e \in TrackerErrors : TrackerUpdate(ok, e)
    \/ TrackerIsHealthy
    \/ TrackerClock

SpecHealth == TrackerInit /\ [][TrackerNext]_vars

----------------------------------------------------------------------------
(* The inbound path of one adapter; the orchestrator *)

\* no adapter operation in progress, the health record as constructed
Quiescent ==
    /\ now = 1
    /\ globalInstance = Null
    /\ z = [i \in Inst |-> NoInstance]
    /\ cpc = [c \in Calls |-> "idle"]
    /\ cold = [c \in Calls |-> Null]
    /\ cret = [c \in Calls |-> Null]
    /\ zConn = [i \in Inst |-> 0]
    /\ zBackoff = [i \in Inst |-> 0]
    /\ zLogin = [i \in Inst |-> 0]
    /\ outCalls = 0
    /\ refused = 0
    /\ tg = TgNew
    /\ tPend = [k \in Awaits |-> 0]
    /\ hs = BaseHealthInit
    /\ hsPrev = BaseHealthInit
    /\ hsCall = NoCall

\* an adapter of either kind: before connect(), holding its handle but not
\* connected, or connected
InboundInit ==
    /\ variant \in {"zalo", "telegram"}
    /\ Quiescent
    /\ inb \in {[InbNew EXCEPT !.handle = h, !.connected = c] :
                   h \in BOOLEAN, c \in BOOLEAN} \ {[InbNew EXCEPT !.connected = TRUE]}
    /\ orch = OrchNew
    /\ nm = NmNew
    /\ ord = OrdNew

SpecInbound == InboundInit /\ [][InboundNext]_vars

\* a ChatIntegration with any adapter map initialize() can leave, running or not,
\* with REPEAT_MODE set or not
OrchInit ==
    /\ variant = "zalo"
    /\ Quiescent
    /\ inb = InbNew
    /\ orch \in {[OrchNew EXCEPT !.adapters = a, !.isRunning = r, !.echo = e] :
                    a \in {x \in AdapterMaps : OrderedMap(x)},
                    r \in BOOLEAN, e \in BOOLEAN}
    /\ nm = NmNew
    /\ ord = OrdNew

SpecOrch == OrchInit /\ [][OrchNext]_vars

\* any payload of the adapter's transport
NormalizeInit ==
    /\ variant \in {"zalo", "telegram"}
    /\ Quiescent
    /\ inb = InbNew
    /\ orch = OrchNew
    /\ nm \in {[NmNew EXCEPT !.raw = q,
                              !.health = IF variant = "zalo"
                                         THEN ZaloUpdateHealthStatus(ZaloHealthInit, TRUE, now)
                                         ELSE UpdateHealthStatus(BaseHealthInit, TRUE,
                                                                 NoError, now)] :
                  q \in IF variant = "zalo" THEN ZaloRaw ELSE TgRaw}
    /\ ord = OrdNew

SpecNormalize == NormalizeInit /\ [][NormalizeNext]_vars

\* a connected adapter with its callback registered, with REPEAT_MODE set or not
OrderInit ==
    /\ variant \in {"zalo", "telegram"}
    /\ Quiescent
    /\ inb = InbNew
    /\ orch = OrchNew
    /\ nm = NmNew
    /\ ord \in {[OrdNew EXCEPT !.echo = e] : e \in BOOLEAN}

SpecOrder == OrderInit /\ [][OrderNext]_vars
----------------------------------------------------------------------------
(* Properties *)

\* the fields of a Zalo instance that the program itself holds
ZaloFields(r) == <<r.shutdown, r.zalo, r.api, r.isConnected, r.timer, r.health>>

\* the fields of the Telegram adapter that the program itself holds
TgFields(r) ==
    <<r.bot, r.isConnected, r.timer, r.health, r.messagesProcessed, r.lastActivity>>

\* a Zalo instance is live: logged in, listener started, not shut down
ZaloLive(r) == r.api = "started" /\ ~r.shutdown

\* C1: once forceShutdown() has returned on an adapter, sendMessage() on it raises
\* the not-connected error, whatever suspended call of the adapter resumes later.
C1_SendFailsAfterForceShutdown ==
    /\ variant = "telegram" =>
          ("forceShutdown" \in tg.down => TgSendOutcome(tg) = "NotConnected")
    /\ variant = "zalo" =>
          \A i \in Inst : z[i].fsReturned => ZaloSendOutcome(z[i]) = "NotConnected"

\* C1 is refuted by a reached state: forceShutdown() has returned on the instance
\* and sendMessage() dispatches on it.
C1_SendsAfterForceShutdown ==
    \/ variant = "telegram" /\ "forceShutdown" \in tg.down
       /\ TgSendOutcome(tg) = "dispatch"
    \/ variant = "zalo" /\ \E i \in Inst : z[i].fsReturned
                                           /\ ZaloSendOutcome(z[i]) = "dispatch"

\* C2: at most one Zalo instance is live at any time, for every interleaving of
\* create() calls.
C2_AtMostOneLiveInstance ==
    Cardinality({i \in Inst : ZaloLive(z[i])}) <= 1

----------------------------------------------------------------------------
(* The singleton guard *)

\* the health test of the guard, spelled out
ReportsHealthy(r) ==
    r.health.isConnected /\ r.health.consecutiveFailures < 5

\* the registry holds an instance that is not shut down and reports healthy
RegistryHealthy ==
    /\ globalInstance # Null
    /\ ~z[globalInstance].shutdown
    /\ ReportsHealthy(z[globalInstance])

\* call c of create() begins in this step
CreateBegins(c) == cpc[c] = "idle" /\ cpc'[c] # "idle"

\* call c of create() returns in this step
CreateReturns(c) == cpc[c] # "done" /\ cpc'[c] = "done"

\* instance i has been force-shut: no armed timer, no listener, not connected
ForceShut(r) ==
    r.shutdown /\ ~r.timer /\ r.api = "null" /\ ~r.isConnected

\* C3: when the registry holds an instance that is not shut down and reports
\* healthy, create() returns that very instance in the step it is called (no login
\* handshake), and leaves the registry slot and every instance unchanged; it is the
\* instance any earlier call returned from the same slot.
C3_HealthyInstanceReused ==
    [][\A c \in Calls :
          (CreateBegins(c) /\ RegistryHealthy) =>
             /\ cpc'[c] = "done"
             /\ cret'[c] = globalInstance
             /\ globalInstance' = globalInstance
             /\ z' = z
             /\ \A d \in Calls :
                   (cpc[d] = "done" /\ cret[d] = globalInstance) => cret'[c] = cret[d]
      ]_vars

\* two create() calls have returned the same instance
C3_Witness ==
    \E c, d \in Calls :
        c # d /\ cpc[c] = "done" /\ cpc[d] = "done" /\ cret[c] # Null /\ cret[c] = cret[d]

\* C4: create() returns null, or an instance that is in the registry slot, not shut
\* down and healthy; when it returns null after the handshake of its new instance
\* failed, that instance is force-shut and the slot does not hold it.
C4_CreateReturnsNullOrLive ==
    [][\A c \in Calls :
          CreateReturns(c) =>
             \/ /\ cret'[c] = Null
                /\ (cpc[c] = "login") => (ForceShut(z'[c]) /\ globalInstance' # c)
             \/ /\ cret'[c] # Null
                /\ globalInstance' = cret'[c]
                /\ ~z'[cret'[c]].shutdown
                /\ ReportsHealthy(z'[cret'[c]])
      ]_vars

\* a create() call returned null after the handshake of its instance failed
C4_Witness ==
    \E c \in Calls : cpc[c] = "done" /\ cret[c] = Null /\ z[c].shutdown

\* C5: when create() finds a registered instance that is unhealthy or shut down, the
\* step that begins the call force-shuts it and clears the registry slot, so both
\* are done when the handshake of the new instance begins; the call never returns
\* the instance it replaced.
C5_UnhealthyInstanceReplaced ==
    [][\A c \in Calls :
          /\ (CreateBegins(c) /\ globalInstance # Null /\ ~RegistryHealthy) =>
                /\ ForceShut(z'[globalInstance])
                /\ globalInstance' = Null
                /\ cold'[c] = globalInstance
                /\ cret'[c] # globalInstance
          /\ (CreateReturns(c) /\ cold[c] # Null) => cret'[c] # cold[c]
      ]_vars

\* a create() call replaced a registered instance and is in the handshake of its own
C5_Witness ==
    \E c \in Calls : cpc[c] = "login" /\ cold[c] # Null /\ ForceShut(z[cold[c]])

----------------------------------------------------------------------------
(* Shutdown *)

\* the Telegram adapter is shut down: a shutdown operation has returned since the
\* last connect(), and nothing of the connection is left
TgShutDown(r) ==
    r.down # {} /\ r.bot = "null" /\ ~r.isConnected /\ ~r.timer

\* C6: once disconnect() or forceShutdown() has completed on an adapter, a later
\* connect() on it fails, and no later state of it has isConnected true or a
\* connection handle.
C6_ShutDownIsTerminal ==
    [][/\ (variant = "telegram" /\ tg.down # {}) =>
             /\ TgConnect => tg' = tg
             /\ ~tg'.isConnected
             /\ tg'.bot = "null"
       /\ variant = "zalo" =>
             \A i \in Inst :
                z[i].shutdown =>
                   /\ ZaloConnect(i) => ZaloConnectOutcome(z[i]) = "throws"
                   /\ ~z'[i].isConnected
                   /\ z'[i].api = "null"
      ]_vars

\* C6 is refuted by a reached state: a Zalo instance carries the shutdown flag and
\* is connected, with a logged-in handle whose listener is started
C6_ConnectedWhileShutDown ==
    /\ variant = "zalo"
    /\ \E i \in Inst : z[i].shutdown /\ z[i].isConnected /\ z[i].api = "started"

\* C7: disconnect() and forceShutdown() on an adapter that is already shut down
\* change nothing of it: isConnected, the handle, the shutdown flag, the timer, the
\* registry slot, the health record with its consecutiveFailures.
C7_ShutdownIdempotent ==
    [][/\ (variant = "telegram" /\ TgShutDown(tg) /\ (TgForceShutdown \/ TgDisconnect)) =>
             TgFields(tg') = TgFields(tg)
       /\ variant = "zalo" =>
             \A i \in Inst :
                (ForceShut(z[i]) /\ (ZaloForceShutdown(i) \/ ZaloDisconnect(i))) =>
                   /\ ZaloFields(z'[i]) = ZaloFields(z[i])
                   /\ globalInstance' = globalInstance
      ]_vars

\* C7 is refuted by a reached state: the Telegram adapter is shut down and never
\* failed a check or a send, yet its record counts two failures, one for each
\* shutdown operation that was called on it
C7_SecondShutdownCounted ==
    /\ variant = "telegram"
    /\ TgShutDown(tg)
    /\ tg.health.consecutiveFailures >= 2
    /\ tg.health.lastError = NoError

----------------------------------------------------------------------------
(* The health tracker *)

\* C8: isHealthy() returns exactly (isConnected and consecutiveFailures < 5); with
\* five or more consecutive failures it returns false, whatever isConnected is.
C8_IsHealthyDefinition ==
    hsCall.op = "isHealthy" =>
       /\ hsCall.healthy = (hs.isConnected /\ hs.consecutiveFailures < 5)
       /\ hs.consecutiveFailures >= 5 => ~hsCall.healthy

\* isHealthy() answered false on a record that is connected and counts five failures
C8_Witness ==
    /\ hsCall.op = "isHealthy"
    /\ hs.isConnected
    /\ hs.consecutiveFailures = 5
    /\ ~hsCall.healthy

\* C9: updateHealthStatus() stamps the last-check time and changes no other field
\* than these: on success lastError is cleared, consecutiveFailures is 0 and
\* isConnected is true; on failure consecutiveFailures is one more, isConnected is
\* false and lastError is the error given (an absent or empty one leaves it).
C9_UpdateHealthStatusTransition ==
    hsCall.op = "update" =>
       /\ DOMAIN hs = DOMAIN hsPrev
       /\ hs.lastHealthCheck = hsCall.t
       /\ variant = "telegram" => hs.reconnectAttempts = hsPrev.reconnectAttempts
       /\ hsCall.success =>
             /\ hs.lastError = NoError
             /\ hs.consecutiveFailures = 0
             /\ hs.isConnected
       /\ ~hsCall.success =>
             /\ hs.consecutiveFailures = hsPrev.consecutiveFailures + 1
             /\ ~hs.isConnected
             /\ hs.lastError = IF hsCall.error \in {NoError, ""}
                               THEN hsPrev.lastError ELSE hsCall.error

\* a success after three or more failures: the count is back at 0, the record connected
C9_Witness ==
    /\ hsCall.op = "update"
    /\ hsCall.success
    /\ hsPrev.consecutiveFailures >= 3
    /\ ~hsPrev.isConnected
    /\ hs.consecutiveFailures = 0
    /\ hs.isConnected

----------------------------------------------------------------------------
(* sendMessage() *)

\* C10: sendMessage() called while isConnected is false or the handle is absent
\* raises the not-connected error, makes no transport call, suspends nowhere and
\* leaves the adapter (health record, activity counters) as it was.
C10_SendRefusedWhenNotConnected ==
    [][/\ (TgSendMessage /\ (tg.bot = "null" \/ ~tg.isConnected)) =>
             /\ refused' = refused + 1
             /\ outCalls' = outCalls
             /\ tPend' = tPend
             /\ tg' = tg
       /\ \A i \in Inst :
             (ZaloSendMessage(i) /\ (z[i].api = "null" \/ ~z[i].isConnected)) =>
                /\ refused' = refused + 1
                /\ outCalls' = outCalls
                /\ z' = z
      ]_vars

\* a sendMessage() was refused on a Telegram adapter that holds a handle and is not
\* connected (connect() is in setWebHook())
C10_Witness ==
    /\ variant = "telegram"
    /\ refused > 0
    /\ tg.bot # "null"
    /\ ~tg.isConnected
    /\ tg.messagesProcessed = 0

----------------------------------------------------------------------------
(* Teardown *)

\* a disconnect() call of the Telegram adapter that was suspended in stopPolling()
\* settles in this step
TgDisconnectSettles ==
    variant = "telegram" /\ tPend'["stop"] < tPend["stop"]

\* C11: disconnect() never throws: whatever the teardown of the transport does, the
\* call returns, and ends with the health-check timer stopped, the handle released
\* and isConnected false.
C11_DisconnectNeverThrows ==
    [][/\ TgDisconnectSettles =>
             /\ "disconnect" \in tg'.down
             /\ ~tg'.timer
             /\ tg'.bot = "null"
             /\ ~tg'.isConnected
       /\ \A i \in Inst : ZaloDisconnect(i) => ForceShut(z'[i])
      ]_vars

----------------------------------------------------------------------------
(* Inbound messages *)

\* the payload carries no sender identifier where its shape keeps one
ZaloLacksSender(q) == q.null \/ (IF q.data THEN ~q.uidFrom ELSE ~q.senderId)
TgLacksSender(q) == q.from \in {"absent", "noid"}
LacksSender ==
    /\ inb.handled
    /\ IF variant = "zalo" THEN ZaloLacksSender(inb.payload)
       ELSE TgLacksSender(inb.payload)

\* C13: a payload without sender identifier never reaches the registered
\* callback, and the handler's promise does not reject: it returns early,
\* answers with the apology, or (Telegram, `from` without id) records the
\* failure in its catch.
C13_NoSenderNeverForwarded ==
    LacksSender =>
        /\ inb.invoked = <<>>
        /\ ~inb.pending
        /\ ~inb.threw
        /\ inb.path \in {"skipped", "rejected", "failed"}

\* a callback is registered and the text is acceptable: only the sender is missing
C13_Witness ==
    /\ variant = "telegram"
    /\ LacksSender
    /\ inb.callback # Null
    /\ inb.payload.from = "absent"
    /\ inb.payload.content = [len |-> 1, trimmed |-> 1]
    /\ inb.path = "rejected"

\* the handler built the normalized message of the payload
Normalized == inb.handled /\ inb.path \in {"rejected", "forwarded"}

\* empty after trimming, or above the ceiling
BadContent(c) == c.trimmed = 0 \/ c.len > MAX_CONTENT_LENGTH

----------------------------------------------------------------------------
(* The orchestrator *)

\* C15: handleMessage() resolves with a reply for every message and every
\* outcome of the agent call; when the agent call fails inside the client or
\* its promise rejects, the reply is a generic apology of the message's or the
\* client's type.
C15_HandleMessageNeverPropagates ==
    orch.handled =>
        /\ ~orch.hmThrew
        /\ orch.reply # NoReply
        /\ orch.agent = "failed" => orch.reply.content = ClientApology
        /\ orch.agent = "rejects" =>
              /\ orch.reply.content = HandlerApology
              /\ orch.reply.messageType = orch.message.messageType

C15_Witness ==
    /\ orch.handled
    /\ orch.agent = "rejects"
    /\ orch.agentCalls = 1
    /\ orch.reply.content = HandlerApology

\* shutdown() returns on this step
ShutdownReturns == orch.sd # "done" /\ orch'.sd = "done"

\* C16: when shutdown() returns it has called, in map order, forceShutdown on
\* every adapter that has it and disconnect on every other one, whatever the
\* earlier calls did; it has not rejected, the map is empty and isRunning is
\* false.
C16_ShutdownReachesEveryAdapter ==
    [][ShutdownReturns =>
          /\ Len(orch'.attempts) = Len(orch.adapters)
          /\ \A k \in 1 .. Len(orch.adapters) :
                orch'.attempts[k] = [platform |-> orch.adapters[k].platform,
                                     op |-> ShutdownOp(orch.adapters[k])]
          /\ ~orch'.sdThrew
          /\ orch'.adapters = <<>>
          /\ ~orch'.isRunning
      ]_vars

\* both operations raised, the second one was still called, one of each kind
C16_Witness ==
    /\ orch.sd = "done"
    /\ orch.errors = 2
    /\ Len(orch.attempts) = 2
    /\ orch.attempts[1].op = "forceShutdown"
    /\ orch.attempts[2].op = "disconnect"
    /\ orch.adapters = <<>>
    /\ ~orch.isRunning

\* C17: in repeat mode the reply's content is the content of the inbound
\* message, character for character, and the agent is not called.
C17_EchoReturnsContentVerbatim ==
    (orch.handled /\ orch.echo) =>
        /\ orch.reply.content = orch.message.content
        /\ orch.agentCalls = 0

\* "hi" comes back as "Echo: hi"
C17_EchoPrefixed ==
    /\ orch.handled /\ orch.echo
    /\ orch.message.content = "hi"
    /\ orch.reply.content = "Echo: hi"
    /\ orch.agentCalls = 0

----------------------------------------------------------------------------
(* Registration of the inbound callback *)

\* C18: whatever registrations were made, a payload that is forwarded invokes
\* the callback registered last, once, and no other; registering a callback or
\* finishing a handler invokes none.
C18_OnlyLatestCallbackInvoked ==
    [][/\ InboundArrives =>
             /\ inb'.path = "forwarded" =>
                   /\ inb.regs # <<>>
                   /\ inb'.invoked = <<inb.regs[Len(inb.regs)]>>
             /\ inb'.path # "forwarded" => inb'.invoked = <<>>
       /\ ~InboundArrives => inb'.invoked = inb.invoked
      ]_vars

\* two different callbacks were registered and the second one got the message
C18_Witness ==
    /\ Len(inb.regs) = 2
    /\ inb.regs[1] # inb.regs[2]
    /\ inb.path = "forwarded"
    /\ inb.invoked = <<inb.regs[2]>>

----------------------------------------------------------------------------
(* create() with an invalid configuration *)

\* C19: a create() call whose configuration lacks the cookie, the IMEI or the
\* user agent rejects and yields no adapter.
C19_InvalidConfigRejects ==
    [][\A c \in Calls :
          ZaloCreateEnter(c, FALSE) =>
             /\ cpc'[c] = "rejected"
             /\ cret'[c] = Null
      ]_vars

\* the call has resolved with null and no instance was constructed for it
C19_InvalidConfigResolvesNull ==
    \E c \in Calls :
        /\ cpc[c] = "done"
        /\ cret[c] = Null
        /\ z[c] = NoInstance

----------------------------------------------------------------------------
(* getUser() *)

\* C20: getUser() of the Zalo adapter yields the absent result for every user
\* id.
C20_ZaloGetUserAbsent ==
    variant = "zalo" => inb.user = BaseGetUser(inb.user.id)

\* a user record made up from the id that was asked for
C20_PlaceholderUser ==
    /\ variant = "zalo"
    /\ inb.user.present
    /\ inb.user.id \in UserIds
    /\ inb.user.name = "Zalo Personal User"

----------------------------------------------------------------------------
(* Normalization scenarios *)

\* a flat payload (no data object) with sender.id, sender.name and a non-empty
\* text, and no body field beside it
FlatSenderText(q) ==
    /\ ~q.data
    /\ q.senderId # Missing /\ q.senderName # Missing
    /\ ~FalsyText(q.text)
    /\ q.body = Missing

OnlyPhoto ==
    IF variant = "zalo"
    THEN /\ ~nm.raw.data
         /\ nm.raw.photo /\ ~nm.raw.file
         /\ FalsyText(nm.raw.body) /\ FalsyText(nm.raw.text)
         /\ nm.raw.senderId # Missing
    ELSE /\ nm.raw.photo
         /\ nm.raw.text = Missing /\ nm.raw.caption = Missing
         /\ nm.raw.sticker = Missing /\ nm.raw.document = Missing
         /\ ~nm.raw.audio /\ ~nm.raw.video /\ ~nm.raw.location
         /\ nm.raw.fromId # Missing

\* C22: for either adapter, the canonical message of a photo-only payload with
\* a valid sender has content "[Photo]" and messageType image.
C22_PhotoOnlyPayload ==
    (nm.done /\ ~nm.threw /\ OnlyPhoto) =>
        /\ nm.msg.content = "[Photo]"
        /\ nm.msg.messageType = "image"

\* the Zalo adapter's canonical message of a photo
C22_ZaloImageMessage ==
    /\ variant = "zalo" /\ nm.done /\ OnlyPhoto
    /\ nm.msg.content = "[Image message]"
    /\ nm.msg.messageType = "image"

----------------------------------------------------------------------------
(* Health-check ticks and reconnection *)

\* health-check bodies of the adapter that have begun and not run to their end:
\* suspended in getMe(), in the 30 s backoff or in the handshake of a reconnection
ZaloChecksInProgress(i) == zBackoff[i] + zLogin[i]
TgChecksInProgress == tPend["probe"] + tPend["backoff"]

\* C23: a health-check tick begins only when no earlier health-check body of
\* the adapter, with the reconnection it started, is still in progress; so at
\* most one body and one reconnection attempt are in progress at any time.
C23_TicksStrictlySequential ==
    [][/\ \A i \in Inst : ZaloTick(i) => ZaloChecksInProgress(i) = 0
       /\ TgTick => TgChecksInProgress = 0
       /\ \A i \in Inst : ZaloChecksInProgress(i)' <= 1
       /\ TgChecksInProgress' <= 1
      ]_vars

\* two reconnection attempts of one Zalo instance in progress
C23_TwoReconnectionsInProgress ==
    \E i \in Inst : ZaloChecksInProgress(i) = 2 /\ z[i].timer

\* a tick whose check failed: the listener is missing (Zalo), getMe() rejected
\* (Telegram)
ZaloTickFails(i) ==
    /\ ZaloTick(i)
    /\ z'[i].health.consecutiveFailures = z[i].health.consecutiveFailures + 1
TgProbeFails ==
    /\ variant = "telegram"
    /\ tPend'["probe"] < tPend["probe"]
    /\ tg'.health.consecutiveFailures = tg.health.consecutiveFailures + 1

C25_NoTimerAfterShutdown ==
    /\ variant = "telegram" => (tg.down # {} => ~tg.timer)
    /\ variant = "zalo" => \A i \in Inst : z[i].shutdown => ~z[i].timer

\* forceShutdown() has returned on the instance and its timer is armed
C25_TimerArmedAfterForceShutdown ==
    /\ variant = "zalo"
    /\ \E i \in Inst : z[i].fsReturned /\ z[i].shutdown /\ z[i].timer

\* a reconnection attempt ends in failure: login() or the bot's construction
\* raised and the catch of attemptReconnection() counted it
ZaloReconnectionFails(i) ==
    /\ variant = "zalo"
    /\ \/ zLogin'[i] < zLogin[i]
       \/ zBackoff'[i] < zBackoff[i] /\ zLogin'[i] = zLogin[i]
    /\ z'[i].health.consecutiveFailures = z[i].health.consecutiveFailures + 1
TgReconnectionFails ==
    /\ variant = "telegram"
    /\ tPend'["backoff"] < tPend["backoff"]
    /\ tg'.health.consecutiveFailures = tg.health.consecutiveFailures + 1

C27_SuccessfulReconnectionConnects ==
    [][/\ \A i \in Inst :
             (ZaloReconnectResume(i, "ok") /\ ~z[i].shutdown) =>
                /\ z'[i].api = "started"
                /\ z'[i].isConnected
                /\ z'[i].health.isConnected
                /\ z'[i].health.consecutiveFailures = 0
       /\ ((\E st \in BOOLEAN, m \in ErrMsgs : TgBackoffDone(st, FALSE, m))
             /\ tg.down = {}) =>
             /\ tg'.bot \in {"polling", "idle"}
             /\ tg'.isConnected
             /\ tg'.health.isConnected
             /\ tg'.health.consecutiveFailures = 0
      ]_vars

\* a bot that polls although connect() built it for the webhook: only a
\* reconnection builds it so
C27_Witness ==
    /\ variant = "telegram"
    /\ tg.config.webhook = "url" /\ tg.config.polling
    /\ tg.down = {}
    /\ tg.bot = "polling"
    /\ tg.isConnected /\ tg.health.isConnected
    /\ tg.health.consecutiveFailures = 0
    /\ tg.health.reconnectAttempts = 1

----------------------------------------------------------------------------
(* Transport errors *)

\* C28: for every adapter variant a network-transient error (socket hang up,
\* connection reset, timeout) only updates the health record and never runs
\* forceShutdown(), a critical error (refused authentication, fatal protocol
\* error) runs forceShutdown() in the same step, without waiting for a tick,
\* and no error is of both classes.
C28_ErrorsPartitioned ==
    [][/\ \A e \in BotErrors :
             /\ ~(IsNetworkError(e) /\ IsCriticalError(e))
             /\ (TgBotError(e) /\ IsNetworkError(e)) =>
                   tg' = [tg EXCEPT !.health = UpdateHealthStatus(@, FALSE, e.msg, now)]
             /\ (TgBotError(e) /\ IsCriticalError(e)) =>
                   /\ tg'.bot = "null" /\ ~tg'.isConnected
                   /\ "forceShutdown" \in tg'.down
       /\ \A i \in Inst :
             /\ ZaloListenerError(i, "socket hang up") =>
                   z'[i] = [z[i] EXCEPT !.health = z'[i].health]
             /\ ZaloListenerError(i, "401 Unauthorized") =>
                   /\ z'[i].shutdown
                   /\ z'[i].api = "null" /\ ~z'[i].isConnected
      ]_vars

\* a Zalo instance whose listener reported a refused session and which is
\* still connected and not shut down
C28_ZaloCriticalErrorOnlyRecorded ==
    /\ variant = "zalo"
    /\ z[1].health.lastError = "401 Unauthorized"
    /\ ~z[1].shutdown
    /\ z[1].api = "started" /\ z[1].isConnected

----------------------------------------------------------------------------
(* Usability *)

\* C29: no code path treats an adapter as usable from isConnected alone:
\* whenever create() hands out the registered instance, or a sendMessage()
\* call passes its guard and reaches the transport, isHealthy() holds for
\* that adapter.
C29_UsableOnlyWhenHealthy ==
    [][/\ \A c \in Calls :
             (cpc[c] = "idle" /\ cpc'[c] = "done" /\ cret'[c] # Null) =>
                ZaloIsHealthy(z[cret'[c]].health)
       /\ \A i \in Inst :
             (ZaloSendMessage(i) /\ outCalls' = outCalls + 1) =>
                ZaloIsHealthy(z[i].health)
       /\ (TgSendMessage /\ outCalls' = outCalls + 1) => IsHealthy(tg.health)
      ]_vars

\* a Telegram adapter that isHealthy() rejects and whose sendMessage() passes
\* its guard: the next call is dispatched on the bot
C29_UnhealthyAdapterSends ==
    /\ variant = "telegram"
    /\ tg.down = {}
    /\ ~IsHealthy(tg.health)
    /\ TgSendOutcome(tg) = "dispatch"
    /\ outCalls + refused < MaxOut

----------------------------------------------------------------------------
(* Order of inbound messages *)

\* C30: within one adapter the callback is invoked for the messages in the
\* order the transport delivered them, and the replies are handed to the
\* transport in that order too, however long each agent call takes.
C30_ProcessedInDeliveryOrder ==
    /\ \A j, k \in 1 .. Len(ord.invoked) : j < k => ord.invoked[j] < ord.invoked[k]
    /\ \A j, k \in 1 .. Len(ord.replies) : j < k => ord.replies[j].to < ord.replies[k].to

\* the reply to the second message was sent, the first message still waits for
\* its agent call
C30_ReplyOvertakes ==
    /\ ~ord.echo
    /\ Len(ord.delivered) = 2
    /\ ord.invoked = <<1, 2>>
    /\ ord.waiting = <<1>>
    /\ Len(ord.replies) = 1 /\ ord.replies[1].to = 2

----------------------------------------------------------------------------
(* Replies *)

\* C31: the reply to a forwarded message goes out through the adapter that
\* received the message, to that message's metadata.threadId, and every
\* forwarded message carries a metadata.threadId.
C31_ReplyGoesToMetadataThreadId ==
    /\ inb.path = "forwarded" => inb.msg.metadataThreadId # NoField
    /\ \A k \in 1 .. Len(inb.sent) :
          inb.sent[k].what = "reply" => inb.sent[k].to = inb.msg.metadataThreadId

\* a Telegram message without metadata.threadId was forwarded and its reply
\* went to the chat it came from
C31_TelegramReplyToChatId ==
    /\ variant = "telegram"
    /\ inb.path = "forwarded"
    /\ inb.msg.metadataThreadId = NoField
    /\ inb.sent = <<[to |-> "chat", what |-> "reply"]>>

\* the callback raised, or the reply's send failed
CallbackFails ==
    \/ \E ok \in BOOLEAN : CallbackSettles("throws", ok)
    \/ CallbackSettles("response", FALSE)

\* C32: when the handling of a forwarded message raises (the callback raises
\* or the send of the reply fails) on an adapter that is still connected, the
\* sender gets the error apology in the message's conversation, and the
\* inbound handler does not reject.
C32_ExceptionAnsweredByApology ==
    [][(CallbackFails /\ inb.handle /\ inb.connected) =>
          /\ \E k \in 1 .. Len(inb'.sent) :
                inb'.sent[k] = [to |-> inb.msg.threadId, what |-> "error"]
          /\ ~inb'.threw
      ]_vars

\* a connected Telegram adapter whose handler caught an exception, recorded it
\* in the health tracker and sent nothing
C32_TelegramExceptionUnanswered ==
    /\ variant = "telegram"
    /\ inb.handle /\ inb.connected
    /\ inb.path = "forwarded" /\ ~inb.pending
    /\ inb.failures = 1
    /\ inb.apologies = <<>> /\ inb.sent = <<>>
    /\ ~inb.threw

----------------------------------------------------------------------------
(* Message types *)

\* C33: the messageType of a canonical message is that of the first content
\* field present in the order document, photo, audio, video, sticker,
\* location, text; a payload with a text and a photo is typed image, one with
\* a document and a photo is typed file.
C33_TypeByRichestContent ==
    (nm.done /\ ~nm.threw) =>
        LET q == nm.raw IN
        IF variant = "telegram"
        THEN nm.msg.messageType =
                IF q.document # Missing THEN "file"
                ELSE IF q.photo THEN "image"
                ELSE IF q.audio THEN "audio"
                ELSE IF q.video THEN "video"
                ELSE IF q.sticker # Missing THEN "sticker"
                ELSE IF q.location THEN "location"
                ELSE "text"
        ELSE ~q.data =>
                nm.msg.messageType =
                   IF q.file THEN "file" ELSE IF q.photo THEN "image" ELSE "text"

\* a Telegram message with a text and a photo, typed text
C33_TextOutranksPhoto ==
    /\ variant = "telegram" /\ nm.done
    /\ nm.raw.text = "hi" /\ nm.raw.photo
    /\ nm.raw.document = Missing
    /\ nm.msg.messageType = "text"

----------------------------------------------------------------------------
(* Message identifiers *)

\* C34: for either adapter a payload without identifier is normalized like
\* any other: building its message does not raise, its canonical id is the
\* current timestamp as a string, and the adapter's health record is left as
\* it was.
C34_MissingIdNeverFails ==
    [][((ZaloNormalize /\ nm.raw.msgId = Missing)
          \/ (TgNormalize /\ nm.raw.messageId = Missing)) =>
          /\ ~nm'.threw
          /\ nm'.id = ToString(now)
          /\ nm'.msg # NoCanonical
          /\ nm'.health = nm.health
      ]_vars

\* a Telegram message from a user, with a text and no message_id: no message
\* was built and the health record counts a failure
C34_TelegramMissingIdFails ==
    /\ variant = "telegram" /\ nm.done
    /\ nm.raw.messageId = Missing
    /\ nm.raw.text = "hi" /\ nm.raw.fromId = "u1"
    /\ nm.threw /\ nm.msg = NoCanonical
    /\ ~nm.health.isConnected /\ nm.health.consecutiveFailures = 1

----------------------------------------------------------------------------
(* Invariants of the adapter state *)

\* C35: in every reachable state a health record with isConnected true has
\* consecutiveFailures 0, so isHealthy() is the same as
\* connectionHealth.isConnected.
C35_ConnectedMeansNoFailures ==
    /\ variant = "zalo" =>
          \A i \in Inst :
             /\ z[i].health.isConnected => z[i].health.consecutiveFailures = 0
             /\ ZaloIsHealthy(z[i].health) <=> z[i].health.isConnected
    /\ variant = "telegram" =>
          /\ tg.health.isConnected => tg.health.consecutiveFailures = 0
          /\ IsHealthy(tg.health) <=> tg.health.isConnected

\* a Telegram record that counted failures up to the threshold, started a
\* reconnection, and reports connected with no failure
C35_Witness ==
    /\ variant = "telegram"
    /\ tg.health.reconnectAttempts = 1
    /\ tg.health.isConnected
    /\ tg.health.consecutiveFailures = 0
    /\ IsHealthy(tg.health)

\* C36: in every reachable state the Zalo registry slot is empty or holds an
\* instance that is not shut down and that create() returned after a
\* successful initialize(); the slot is set only by a create() whose
\* initialize() succeeded, and forceShutdown() or disconnect() of the
\* registered instance empties it.
C36_SlotHoldsLiveInstance ==
    /\ [](variant = "zalo" /\ globalInstance # Null =>
             /\ ~z[globalInstance].shutdown
             /\ cpc[globalInstance] = "done"
             /\ cret[globalInstance] = globalInstance)
    /\ [][/\ (globalInstance' # globalInstance /\ globalInstance' # Null) =>
                \E o \in LoginOutcomes, m \in ErrMsgs :
                   /\ ZaloCreateResume(globalInstance', o, m)
                   /\ ~ConnectToZaloThrows(o)
          /\ \A i \in Inst :
                ((ZaloForceShutdown(i) \/ ZaloDisconnect(i)) /\ globalInstance = i) =>
                   globalInstance' = Null
         ]_vars

\* the second instance is registered, the first one was shut down
C36_Witness ==
    /\ variant = "zalo"
    /\ globalInstance = 2
    /\ z[1].shutdown /\ ~z[2].shutdown
    /\ cret[1] = 1 /\ cret[2] = 2

----------------------------------------------------------------------------
(* What starts a reconnection *)

\* C37: the reconnection procedure is started only by a health-check tick
\* whose own check failed, and only when consecutiveFailures is at least 5
\* after that failure; a transport error event, a failed send or a failed
\* handling of an inbound message never starts one, whatever count it leaves.
C37_OnlyFailingTickReconnects ==
    [][/\ \A i \in Inst :
             /\ zBackoff'[i] > zBackoff[i] =>
                   /\ ZaloTickFails(i)
                   /\ z'[i].health.consecutiveFailures >= MAX_CONSECUTIVE_FAILURES
             /\ zBackoff'[i] # zBackoff[i] =>
                   ~(\E m \in ListenerErrors : ZaloListenerError(i, m))
       /\ tPend'["backoff"] > tPend["backoff"] =>
             /\ TgProbeFails
             /\ tg'.health.consecutiveFailures >= MAX_CONSECUTIVE_FAILURES
       /\ (\/ tPend'["backoff"] # tPend["backoff"]
           \/ tg'.health.reconnectAttempts # tg.health.reconnectAttempts) =>
             /\ ~(\E e \in BotErrors : TgBotError(e))
             /\ ~(\E m \in ErrMsgs : TgSendResume(FALSE, m) \/ TgInboundFails(m))
      ]_vars

\* a transport error brought the count of a Telegram adapter to the threshold
\* and no reconnection was ever started
C37_Witness ==
    /\ variant = "telegram"
    /\ tg.health.lastError = "socket hang up"
    /\ tg.health.consecutiveFailures >= MAX_CONSECUTIVE_FAILURES
    /\ tg.health.reconnectAttempts = 0
    /\ tPend["backoff"] = 0

\* C38: in every reachable state of an adapter isConnected true implies that
\* the connection handle (the Zalo api, the Telegram bot) is present: the
\* handle is set before isConnected becomes true, and the step that releases
\* the handle clears isConnected.
C38_ConnectedHasHandle ==
    /\ variant = "zalo" => \A i \in Inst : z[i].isConnected => z[i].api # "null"
    /\ variant = "telegram" => (tg.isConnected => tg.bot # "null")

\* a Telegram adapter shut down while its reconnection waited, and connected
\* again, with a new bot, when the reconnection resumed
C38_Witness ==
    /\ variant = "telegram"
    /\ tg.down # {}
    /\ tg.health.reconnectAttempts = 1
    /\ tg.isConnected /\ tg.bot # "null"
    /\ tPend["backoff"] = 0

----------------------------------------------------------------------------
(* Health-check timers *)

\* C39: at most one health-check timer is armed per adapter instance at any
\* time: the interval timers that were set and not cleared are at most one, the
\* one held in the adapter's field, so a repeated connect() or initialize()
\* never leaves two timers ticking for the same adapter.
C39_AtMostOneTimer ==
    /\ variant = "zalo" =>
           \A i \in Inst : z[i].live = (IF z[i].timer THEN 1 ELSE 0)
    /\ variant = "telegram" => tg.live = (IF tg.timer THEN 1 ELSE 0)

\* a connect() has completed on an instance whose timer was already armed
C39_Witness ==
    /\ variant = "zalo"
    /\ z[1].rearmed /\ z[1].timer /\ z[1].live = 1
    /\ z[1].isConnected
    /\ ZaloPending(1) = 0

====
